---- MODULE Spec2Model ----
(***************************************************************************)
(* cc-manager: the run orchestrator (src/core/run-manager.ts), the turn    *)
(* gate (src/core/executor.ts) and the batched recorder                    *)
(* (src/core/stream-recorder.ts) as one state machine.                     *)
(*                                                                         *)
(* JavaScript runs one task at a time; tasks interleave only where a       *)
(* function awaits.  Every action below is the code between two awaits.    *)
(* The database is bun:sqlite behind drizzle (src/db/index.ts): an awaited *)
(* statement runs synchronously in the job the await queues, so statements *)
(* execute in the order they were issued; the awaiting function resumes    *)
(* in a later step unless nothing can observe the difference.              *)
(***************************************************************************)
EXTENDS Integers, Sequences, FiniteSets, TLC

\* ------------------------------------------------------------------ bounds
MaxRuns == 2          \* start/resume/fork calls made in one behaviour
RunsMaxCancels == 1   \* cancel calls made in one behaviour of Spec
RunsMaxMsgs == 1      \* messages the providers yield in one behaviour of Spec
MaxCancels == 2       \* cancel calls made in one behaviour of SpecCancel
CancelMaxMsgs == 2    \* messages the provider yields in SpecCancel
RecMaxMsgs == 3       \* messages the provider yields in SpecRec
MaxBatch == 3         \* largest batchSize tried in SpecRec
FailMaxMsgs == 3      \* messages the provider yields in SpecFail
FailMaxBatch == 2     \* largest batchSize tried in SpecFail
MaxFails == 1         \* inserts that fail in one behaviour of SpecFail
GateMaxMsgs == 2      \* messages the provider yields in SpecGate
LiveMaxMsgs == 2      \* messages the provider yields in SpecLive
LiveMaxBatch == 2     \* largest batchSize tried in SpecLive
NotifyMaxMsgs == 2    \* messages the provider yields in SpecNotify
EndMaxMsgs == 2       \* messages the provider yields in SpecEnd
SdkMaxMsgs == 1       \* messages the providers yield in SpecSdk
MaxInits == 3         \* runs of config.init in one behaviour of SpecState
MaxResets == 2        \* reset() calls in one behaviour of SpecState
MaxGets == 3          \* get/getAsync calls in one behaviour of SpecState
QueryMax == 2         \* largest limit, offset and fromIndex getMessages is called with
MaxDispatches == 3    \* calls of dispatchWebhook in one behaviour of SpecHook
MaxSets == 3          \* set calls on one asynchronous State in SpecSet

\* ------------------------------------------------------- program constants
DefaultBatchSize == 50

RunIds == 1..MaxRuns
CancelIds == 1..MaxCancels

\* ------------------------------------------------------------------ values
\* Strings are tuples of characters, so that trim() is computed; the values
\* that are not strings are one-element tuples that are no character.
Null == <<"null">>             \* SQL NULL / JavaScript null
Undefined == <<"undefined">>   \* a missing property
DurationSet == <<"ms">>        \* a number: Date.now() - startTime
NoError == "noerror"           \* no error string

Blank == " "
IsSpace(ch) == ch = Blank

RECURSIVE TrimStart(_)
TrimStart(s) ==
    IF s = <<>> THEN <<>>
    ELSE IF IsSpace(Head(s)) THEN TrimStart(Tail(s)) ELSE s

RECURSIVE TrimEnd(_)
TrimEnd(s) ==
    IF s = <<>> THEN <<>>
    ELSE IF IsSpace(s[Len(s)]) THEN TrimEnd(SubSeq(s, 1, Len(s) - 1)) ELSE s

\* String.prototype.trim
Trim(s) == TrimEnd(TrimStart(s))

\* Mutant: the check without trim()
IsEmptyInputNoTrim(v) == v = Undefined \/ v = <<>>

\* !v || v.trim().length === 0
IsEmptyInput(v) == v = Undefined \/ v = <<>> \/ Len(Trim(v)) = 0

\* Caller-supplied values of prompt and cwd.
Prompts == {<<>>, <<Blank>>, <<"p">>}
Cwds == {Undefined, <<Blank, Blank>>, <<Blank, "/", "a">>}

\* Session ids: the ones the provider assigns, and one it never assigns.
S1 == <<"s", "1">>
S2 == <<"s", "2">>
ProviderSessionIds == {S1, S2}
SessionArgs == {Undefined, <<Blank>>, S1, <<"z">>}

\* SDK messages, discriminated by type; a result carries a subtype whose
\* words are joined by "_" in the SDK ("error_max_turns").
InitMsg(s) == [type |-> "system", subtype |-> <<"init">>, session_id |-> s]
AssistantMsg == [type |-> "assistant", subtype |-> <<>>, session_id |-> <<>>]
ResultMsg(sub) == [type |-> "result", subtype |-> sub, session_id |-> <<>>]
ResultSubtypes == {<<"success">>, <<"error", "max", "turns">>}
Messages ==
    {InitMsg(s) : s \in ProviderSessionIds} \cup {AssistantMsg}
        \cup {ResultMsg(sub) : sub \in ResultSubtypes}

\* subtype?.startsWith('error')
StartsWithError(sub) == sub # <<>> /\ sub[1] = "error"

VARIABLES
    pc,            \* position of each start/resume/fork call
    args,          \* its parameters: mode, prompt, sessionId, cwd
    activeRuns,    \* keys of the activeRuns map
    activeRun,     \* the ActiveRun object each call created
    rows,          \* table ccr_runs, by primary key
    final,         \* status/result the call is about to persist and return
    result,        \* RunResult each call resolved with
    captured,      \* processStream: capturedSessionId
    resultMessage, \* processStream: resultMessage
    seen,          \* messages the processing loop has handled, in order
    src,           \* the ReadableStream execute() returned
    srcError,      \* the error the stream was errored with
    nEmitted,      \* messages pulled from the provider so far
    procQ,         \* tee branch read by the processing loop
    recQ,          \* tee branch piped to the recorder sink
    sink,          \* state of the recorder's WritableStream
    index,         \* createSink: index
    batch,         \* createSink: batch
    flushTimer,    \* createSink: flushTimer is non-null
    timerArmed,    \* the timeout behind flushTimer has neither fired nor been cleared
    inflight,      \* inserts into ccr_run_messages issued and not yet executed
    msgs,          \* table ccr_run_messages, by run_id, in insertion order
    batchSize,     \* createSink: batchSize
    msgLimit,      \* bound on the messages the providers yield
    cpc,           \* position of each cancel call
    ctarget,       \* its runId argument
    dbq,           \* statements issued to the database and not yet executed
    gen,           \* execute: the input generator handed to query()
    received,      \* execute: receivedResult is resolved
    emitted,       \* history: messages the stream of execute() enqueued
    flushLog,      \* history: the flushes that issued an insert
    lost,          \* history: records of the inserts that failed
    webhookUrl,    \* params.webhookUrl of each start/resume/fork call
    hooks,         \* the calls of dispatchWebhook, each with its HTTP request
    options,       \* params.options of each start/resume/fork call
    sdkOptions,    \* execute: the options query() was called with
    kind,          \* State.create: config.init is synchronous or asynchronous
    state,         \* State.create: state
    initialized,   \* State.create: initialized
    initPromise,   \* State.create: initPromise
    promises,      \* the promises config.init returned: none, pending, resolved
    inits,         \* history: number of times config.init has run
    resets,        \* history: number of reset() calls
    afterReset,    \* history: reset() was called and no get/getAsync since
    got,           \* history: the last get/getAsync call and what it returned
    sets           \* per set call of an asynchronous State: where it is, the value
                   \* or promise it awaits, and what had happened when it was issued

vars == <<pc, args, activeRuns, activeRun, rows, final, result, captured,
          resultMessage, seen, src, srcError, nEmitted, procQ, recQ, sink,
          index, batch, flushTimer, timerArmed, inflight, msgs, batchSize,
          msgLimit, cpc, ctarget, dbq, gen, received, emitted, flushLog,
          lost, webhookUrl, hooks, options, sdkOptions, kind, state,
          initialized, initPromise, promises, inits, resets, afterReset, got,
          sets>>

runVars == <<pc, args, activeRuns, activeRun, rows, final, result>>
loopVars == <<captured, resultMessage, seen>>
streamVars == <<src, srcError, nEmitted, procQ, recQ>>
sinkVars == <<sink, index, batch, flushTimer, timerArmed, inflight, msgs>>
recVars == <<sinkVars, dbq>>
cfgVars == <<batchSize, msgLimit>>
cancelVars == <<cpc, ctarget>>
gateVars == <<gen, received>>
histVars == <<emitted, flushLog, lost>>
hookVars == <<webhookUrl, hooks>>
sdkVars == <<options, sdkOptions>>
stateVars == <<kind, state, initialized, initPromise, promises, inits, resets,
               afterReset, got, sets>>
sideVars == <<hookVars, sdkVars, stateVars>>

NoArgs == [mode |-> "fresh", prompt |-> Undefined, sessionId |-> Undefined,
           cwd |-> Undefined]
NoActiveRun == [sessionId |-> <<>>, status |-> "none", aborted |-> FALSE]
NoJson == [kind |-> "null", subtype |-> <<>>, error |-> NoError]
NoMsg == [type |-> "none", subtype |-> <<>>, session_id |-> <<>>]
NoGenerator == [at |-> "none", yielded |-> 0]
NoFinal == [status |-> "none", sessionId |-> <<>>, resultType |-> Undefined,
            resultJson |-> NoJson, error |-> NoError]

\* The state after the modules are loaded: nothing is running and both
\* tables are empty.  sizes: the batchSize values createSink is given;
\* limit: the bound on provider messages.
InitRuns(sizes, limit) ==
    /\ pc = [c \in RunIds |-> "idle"]
    /\ args = [c \in RunIds |-> NoArgs]
    /\ activeRuns = {}
    /\ activeRun = [c \in RunIds |-> NoActiveRun]
    /\ rows = <<>>
    /\ final = [c \in RunIds |-> NoFinal]
    /\ result = [c \in RunIds |-> NoFinal]
    /\ captured = [c \in RunIds |-> <<>>]
    /\ resultMessage = [c \in RunIds |-> NoMsg]
    /\ seen = [c \in RunIds |-> <<>>]
    /\ src = [c \in RunIds |-> "none"]
    /\ srcError = [c \in RunIds |-> NoError]
    /\ nEmitted = [c \in RunIds |-> 0]
    /\ procQ = [c \in RunIds |-> <<>>]
    /\ recQ = [c \in RunIds |-> <<>>]
    /\ sink = [c \in RunIds |-> "none"]
    /\ index = [c \in RunIds |-> 0]
    /\ batch = [c \in RunIds |-> <<>>]
    /\ flushTimer = [c \in RunIds |-> FALSE]
    /\ timerArmed = [c \in RunIds |-> FALSE]
    /\ inflight = [c \in RunIds |-> <<>>]
    /\ msgs = [c \in RunIds |-> <<>>]
    /\ batchSize \in sizes
    /\ msgLimit = limit
    /\ cpc = [k \in CancelIds |-> "idle"]
    /\ ctarget = [k \in CancelIds |-> 0]
    /\ dbq = <<>>
    /\ gen = [c \in RunIds |-> NoGenerator]
    /\ received = [c \in RunIds |-> FALSE]
    /\ emitted = [c \in RunIds |-> <<>>]
    /\ flushLog = [c \in RunIds |-> <<>>]
    /\ lost = [c \in RunIds |-> <<>>]

\* No call carries a webhookUrl and dispatchWebhook has not been called.
NoHooks ==
    /\ webhookUrl = [c \in RunIds |-> Undefined]
    /\ hooks = <<>>

\* No call carries options and query() has not been called.
NoOptions == [invoked |-> FALSE]
NoSdk ==
    /\ options = [c \in RunIds |-> NoOptions]
    /\ sdkOptions = [c \in RunIds |-> NoOptions]

\* The n-th result of config.init, the promise that resolves with it, and {}
Result(n) == <<"result", n>>
PromiseOf(n) == <<"promise", n>>
EmptyObject == <<"{}">>

\* A set call that has not been made
NoSet == [at |-> "none", current |-> Undefined, issued |-> <<>>]

\* State.create(config) has returned: nothing is initialized yet.
InitState(kinds) ==
    /\ kind \in kinds
    /\ state = Undefined
    /\ initialized = FALSE
    /\ initPromise = Null
    /\ promises = [n \in 1..MaxInits |-> "none"]
    /\ inits = 0
    /\ resets = 0
    /\ afterReset = FALSE
    /\ got = [calls |-> 0, by |-> "none", value |-> Undefined]
    /\ sets = [u \in 1..MaxSets |-> NoSet]

InitWith(sizes, limit) ==
    /\ InitRuns(sizes, limit)
    /\ NoHooks
    /\ NoSdk
    /\ InitState({"sync"})

\* Statements of the start/resume/fork call c, of the cancel call k and of
\* the recorder sink of run c
RunStmt(c) == [by |-> "run", id |-> c]
CancelStmt(k) == [by |-> "cancel", id |-> k]
SinkStmt(c) == [by |-> "sink", id |-> c]

\* await db.<statement>: the statement joins the queue
Issue(stmt) == dbq' = Append(dbq, stmt)

\* The oldest issued statement executes.
Executes(stmt) == dbq # <<>> /\ Head(dbq) = stmt /\ dbq' = Tail(dbq)

\* crypto.randomUUID(): the call takes the next unused id.
NextCall(c) == pc[c] = "idle" /\ \A d \in RunIds : d < c => pc[d] # "idle"

\* activeRuns.set(runId, activeRun) with a fresh ActiveRun
Register(c) ==
    /\ activeRun' = [activeRun EXCEPT ![c] =
           [sessionId |-> <<>>, status |-> "running", aborted |-> FALSE]]
    /\ activeRuns' = activeRuns \cup {c}

\* start(params) up to its first await
StartCall(c) ==
    /\ NextCall(c)
    /\ \E prompt \in Prompts, cwd \in Cwds :
        /\ args' = [args EXCEPT ![c] =
               [mode |-> "fresh", prompt |-> prompt, sessionId |-> Undefined,
                cwd |-> cwd]]
        /\ IF IsEmptyInput(prompt) \/ IsEmptyInput(cwd)
           THEN /\ pc' = [pc EXCEPT ![c] = "ValidationError"]
                /\ UNCHANGED <<activeRuns, activeRun, dbq>>
           ELSE /\ pc' = [pc EXCEPT ![c] = "insert"]
                /\ Register(c)
                /\ Issue(RunStmt(c))
    /\ UNCHANGED <<rows, final, result>>
    /\ UNCHANGED <<loopVars, streamVars, sinkVars, cfgVars, cancelVars>>
    /\ UNCHANGED <<gateVars, histVars>>
    /\ UNCHANGED sideVars

\* resume(params) and fork(params) up to their first await
ResumeOrFork(c, mode) ==
    /\ NextCall(c)
    /\ \E prompt \in Prompts, sid \in SessionArgs :
        /\ args' = [args EXCEPT ![c] =
               [mode |-> mode, prompt |-> prompt, sessionId |-> sid,
                cwd |-> Undefined]]
        /\ IF IsEmptyInput(prompt) \/ IsEmptyInput(sid)
           THEN /\ pc' = [pc EXCEPT ![c] = "ValidationError"]
                /\ UNCHANGED dbq
           ELSE /\ pc' = [pc EXCEPT ![c] = "lookup"]
                /\ Issue(RunStmt(c))
    /\ UNCHANGED <<activeRuns, activeRun, rows, final, result>>
    /\ UNCHANGED <<loopVars, streamVars, sinkVars, cfgVars, cancelVars>>
    /\ UNCHANGED <<gateVars, histVars>>
    /\ UNCHANGED sideVars

ResumeCall(c) == ResumeOrFork(c, "resume")

ForkCall(c) == ResumeOrFork(c, "fork")

\* Mutant: the select without its where clause
SessionRowsAny(sid) == DOMAIN rows

\* select ... where session_id = params.sessionId limit 1
SessionRows(sid) == {d \in DOMAIN rows : rows[d].sessionId = sid}

\* The select of resume/fork executes and the call resumes with firstRun,
\* any row of the session: SessionNotFoundError, or executeRun up to its
\* first await.
AfterLookup(c) ==
    /\ pc[c] = "lookup"
    /\ dbq # <<>> /\ Head(dbq) = RunStmt(c)
    /\ IF SessionRows(args[c].sessionId) = {}
       THEN /\ pc' = [pc EXCEPT ![c] = "SessionNotFound"]
            /\ args' = [args EXCEPT ![c] = NoArgs]
            /\ dbq' = Tail(dbq)
            /\ UNCHANGED <<activeRuns, activeRun>>
       ELSE /\ \E d \in SessionRows(args[c].sessionId) :
                    args' = [args EXCEPT ![c].cwd = rows[d].cwd]
            /\ pc' = [pc EXCEPT ![c] = "insert"]
            /\ Register(c)
            /\ dbq' = Append(Tail(dbq), RunStmt(c))
    /\ UNCHANGED <<rows, final, result>>
    /\ UNCHANGED <<loopVars, streamVars, sinkVars, cfgVars, cancelVars>>
    /\ UNCHANGED <<gateVars, histVars>>
    /\ UNCHANGED sideVars

\* { ...a, ...b }: the keys of both, the value of b where both have the key
Spread(a, b) ==
    [k \in DOMAIN a \cup DOMAIN b |-> IF k \in DOMAIN b THEN b[k] ELSE a[k]]

\* The options of execute() as execute() sets them
ExecuteOptions(cwd, sessionId, abortController) ==
    [cwd |-> cwd, forkSession |-> TRUE, resume |-> sessionId,
     abortController |-> abortController]

\* An execute() that lets the caller's options override its own
SdkOptionsCallerWins(opts, cwd, sessionId, abortController) ==
    Spread(ExecuteOptions(cwd, sessionId, abortController), opts)

\* sdkOptions = { ...options, cwd, forkSession: true, resume: sessionId,
\* abortController }
SdkOptions(opts, cwd, sessionId, abortController) ==
    Spread(opts, ExecuteOptions(cwd, sessionId, abortController))

\* An executeRun that inserts the row of a fresh run
NewRunRowFresh(c) ==
    [cwd |-> args[c].cwd,
     sessionId |-> <<>>,
     parentSessionId |-> Null,
     mode |-> "fresh",
     status |-> "running",
     prompt |-> args[c].prompt,
     resultType |-> Null,
     resultJson |-> NoJson,
     durationMs |-> Null]

\* db.insert(runTable).values({...}) of start and of executeRun
NewRunRow(c) ==
    [cwd |-> args[c].cwd,
     sessionId |-> <<>>,
     parentSessionId |-> IF args[c].mode = "fresh" THEN Null ELSE args[c].sessionId,
     mode |-> args[c].mode,
     status |-> "running",
     prompt |-> args[c].prompt,
     resultType |-> Null,
     resultJson |-> NoJson,
     durationMs |-> Null]

\* db.insert(runTable).values({...}) executes and the call resumes:
\* execute() opens the provider call and returns the stream; processStream
\* tees it, pipes one branch to createSink(runId) and issues the first read
\* on the other.
BeginExecute(c) ==
    /\ pc[c] = "insert"
    /\ Executes(RunStmt(c))
    /\ rows' = (c :> NewRunRow(c)) @@ rows
    /\ src' = [src EXCEPT ![c] = "open"]
    /\ sink' = [sink EXCEPT ![c] = "open"]
    /\ pc' = [pc EXCEPT ![c] = "read"]
    /\ UNCHANGED <<args, activeRuns, activeRun, final, result>>
    /\ UNCHANGED <<srcError, nEmitted, procQ, recQ>>
    /\ UNCHANGED <<index, batch, flushTimer, timerArmed, inflight, msgs>>
    /\ UNCHANGED <<loopVars, cfgVars, cancelVars>>
    /\ gen' = [gen EXCEPT ![c] = [at |-> "created", yielded |-> 0]]
    /\ sdkOptions' = [sdkOptions EXCEPT ![c] =
           SdkOptions(options[c], args[c].cwd, args[c].sessionId, c)]
    /\ UNCHANGED <<received, histVars>>
    /\ UNCHANGED <<hookVars, options, stateVars>>

\* ------------------------------------------------------------- turn gate
RECURSIVE SumTo(_, _)
SumTo(f, n) == IF n = 0 THEN 0 ELSE f[n] + SumTo(f, n - 1)

\* Messages pulled from the providers so far, over all runs
TotalEmitted == SumTo(nEmitted, MaxRuns)

ProviderError == "provider failed"
AbortError == "The operation was aborted"

\* Mutant: a splitter that drops a chunk when the branch has one unread
EnqueueWhenIdle(q, m) == IF q = <<>> THEN <<m>> ELSE q

\* The tee enqueues a chunk in a branch that is not cancelled.
Enqueue(q, m) == Append(q, m)

\* pull(controller) of execute(): sdkStream.next() settles.  The tee hands
\* an enqueued chunk to both branches; close and error reach both, and an
\* error discards what a branch has not read yet.
ProviderPull(c) ==
    /\ src[c] = "open"
    /\ \/ /\ ~activeRun[c].aborted
          /\ TotalEmitted < msgLimit
          /\ \E m \in Messages :
                /\ procQ' = [procQ EXCEPT ![c] = Enqueue(@, m)]
                /\ recQ' = [recQ EXCEPT ![c] =
                       IF sink[c] \in {"open", "writing"} THEN Enqueue(@, m) ELSE @]
                /\ emitted' = [emitted EXCEPT ![c] = Append(@, m)]
                /\ received' = [received EXCEPT ![c] = @ \/ m.type = "result"]
          /\ nEmitted' = [nEmitted EXCEPT ![c] = @ + 1]
          /\ UNCHANGED <<src, srcError>>
       \/ /\ src' = [src EXCEPT ![c] = "closed"]
          /\ UNCHANGED <<srcError, nEmitted, procQ, recQ, emitted, received>>
       \/ /\ src' = [src EXCEPT ![c] = "errored"]
          /\ srcError' = [srcError EXCEPT ![c] =
                 IF activeRun[c].aborted THEN AbortError ELSE ProviderError]
          /\ procQ' = [procQ EXCEPT ![c] = <<>>]
          /\ recQ' = [recQ EXCEPT ![c] = <<>>]
          /\ UNCHANGED <<nEmitted, emitted, received>>
    /\ UNCHANGED <<runVars, loopVars, recVars, cfgVars, cancelVars>>
    /\ UNCHANGED <<gen, flushLog, lost>>
    /\ UNCHANGED sideVars

\* ------------------------------------------------------- processing loop
\* Mutant: every retained result message counts as an error
IsErrorAnyResult(rm) == rm # NoMsg

\* const isError = resultMessage && resultMessage.subtype?.startsWith('error')
IsError(rm) == rm # NoMsg /\ StartsWithError(rm.subtype)

\* JSON.stringify of a message, and JSON.parse of the text
Stringify(m) == <<m.type, m.subtype, m.session_id>>
Parse(t) == [type |-> t[1], subtype |-> t[2], session_id |-> t[3]]

\* The values of the try branch of start/executeRun after processStream
Classify(sessionId, rm) ==
    [status |-> IF IsError(rm) THEN "error" ELSE "completed",
     sessionId |-> sessionId,
     resultType |-> IF rm # NoMsg THEN rm.subtype ELSE Undefined,
     resultJson |-> IF rm # NoMsg
                    THEN [kind |-> "message", subtype |-> rm.subtype, error |-> NoError]
                    ELSE NoJson,
     error |-> NoError]

\* Mutant: a catch branch that reports the run as completed
CaughtAsCompleted(sessionId, message) ==
    [status |-> "completed",
     sessionId |-> sessionId,
     resultType |-> Undefined,
     resultJson |-> NoJson,
     error |-> NoError]

\* The values of the catch branch
Caught(sessionId, message) ==
    [status |-> "error",
     sessionId |-> sessionId,
     resultType |-> Undefined,
     resultJson |-> [kind |-> "error", subtype |-> <<>>, error |-> message],
     error |-> message]

\* reader.read() settles: one iteration of the loop up to its next await,
\* or the end of processStream and start/executeRun up to the final update.
ProcRead(c) ==
    /\ pc[c] = "read"
    /\ IF procQ[c] # <<>>
       THEN LET m == Head(procQ[c]) IN
            /\ procQ' = [procQ EXCEPT ![c] = Tail(@)]
            /\ seen' = [seen EXCEPT ![c] = Append(@, m)]
            /\ IF m.type = "system" /\ m.subtype = <<"init">>
               THEN /\ captured' = [captured EXCEPT ![c] = m.session_id]
                    /\ activeRun' = [activeRun EXCEPT ![c].sessionId = m.session_id]
                    /\ pc' = [pc EXCEPT ![c] = "session"]
                    /\ Issue(RunStmt(c))
                    /\ UNCHANGED resultMessage
               ELSE /\ resultMessage' = [resultMessage EXCEPT ![c] =
                           IF m.type = "result" THEN m ELSE @]
                    /\ UNCHANGED <<captured, activeRun, pc, dbq>>
            /\ UNCHANGED final
       ELSE /\ src[c] \in {"closed", "errored"}
            /\ final' = [final EXCEPT ![c] =
                   IF src[c] = "closed"
                   THEN Classify(captured[c], resultMessage[c])
                   ELSE Caught(activeRun[c].sessionId, srcError[c])]
            /\ pc' = [pc EXCEPT ![c] = "final"]
            /\ Issue(RunStmt(c))
            /\ UNCHANGED <<procQ, seen, captured, resultMessage, activeRun>>
    /\ UNCHANGED <<args, activeRuns, rows, result>>
    /\ UNCHANGED <<src, srcError, nEmitted, recQ>>
    /\ UNCHANGED <<sinkVars, cfgVars, cancelVars>>
    /\ UNCHANGED <<gateVars, histVars>>
    /\ UNCHANGED sideVars

\* A loop whose session update returns without writing the row.
DbUpdateSessionNoWrite(c) ==
    /\ pc[c] = "session"
    /\ Executes(RunStmt(c))
    /\ pc' = [pc EXCEPT ![c] = "read"]
    /\ UNCHANGED <<args, activeRuns, activeRun, rows, final, result>>
    /\ UNCHANGED <<loopVars, streamVars, sinkVars, cfgVars, cancelVars>>
    /\ UNCHANGED <<gateVars, histVars>>
    /\ UNCHANGED sideVars

\* db.update(runTable).set({ sessionId }).where(id = runId) executes and the
\* loop resumes: an init message is no result, so it issues the next read.
DbUpdateSession(c) ==
    /\ pc[c] = "session"
    /\ Executes(RunStmt(c))
    /\ rows' = IF c \in DOMAIN rows
               THEN [rows EXCEPT ![c].sessionId = captured[c]]
               ELSE rows
    /\ pc' = [pc EXCEPT ![c] = "read"]
    /\ UNCHANGED <<args, activeRuns, activeRun, final, result>>
    /\ UNCHANGED <<loopVars, streamVars, sinkVars, cfgVars, cancelVars>>
    /\ UNCHANGED <<gateVars, histVars>>
    /\ UNCHANGED sideVars

\* The final db.update(runTable).set({ status, ... }) executes.  A key whose
\* value is undefined is not written.
DbUpdateFinal(c) ==
    /\ pc[c] = "final"
    /\ Executes(RunStmt(c))
    /\ rows' = IF c \in DOMAIN rows
               THEN [rows EXCEPT
                        ![c].status = final[c].status,
                        ![c].resultType = IF final[c].resultType = Undefined
                                          THEN @ ELSE final[c].resultType,
                        ![c].resultJson = final[c].resultJson,
                        ![c].durationMs = DurationSet]
               ELSE rows
    /\ pc' = [pc EXCEPT ![c] = "finalDone"]
    /\ UNCHANGED <<args, activeRuns, activeRun, final, result>>
    /\ UNCHANGED <<loopVars, streamVars, sinkVars, cfgVars, cancelVars>>
    /\ UNCHANGED <<gateVars, histVars>>
    /\ UNCHANGED sideVars

\* A completion path that returns the RunResult and leaves the run in the
\* registry.
FinishKeepsRegistered(c) ==
    /\ pc[c] = "finalDone"
    /\ UNCHANGED dbq
    /\ result' = [result EXCEPT ![c] = final[c]]
    /\ pc' = [pc EXCEPT ![c] = "resolved"]
    /\ UNCHANGED <<args, activeRuns, activeRun, rows, final>>
    /\ UNCHANGED <<loopVars, streamVars, sinkVars, cfgVars, cancelVars>>
    /\ UNCHANGED <<gateVars, histVars>>
    /\ UNCHANGED sideVars

\* After the final update: activeRuns.delete(runId); return the RunResult.
Finish(c) ==
    /\ pc[c] = "finalDone"
    /\ UNCHANGED dbq
    /\ activeRuns' = activeRuns \ {c}
    /\ result' = [result EXCEPT ![c] = final[c]]
    /\ pc' = [pc EXCEPT ![c] = "resolved"]
    /\ UNCHANGED <<args, activeRun, rows, final>>
    /\ UNCHANGED <<loopVars, streamVars, sinkVars, cfgVars, cancelVars>>
    /\ UNCHANGED <<gateVars, histVars>>
    /\ UNCHANGED sideVars

\* ------------------------------------------------------ batched recorder
\* Mutant: the index restarts with every batch
NewRecordBatchIndex(c, m) == [index |-> Len(batch[c]), messageType |-> m.type,
                              messageJson |-> Stringify(m)]

\* The record write(message) builds
NewRecord(c, m) == [index |-> index[c], messageType |-> m.type,
                    messageJson |-> Stringify(m)]

\* Mutant: a batch that flushes one record late
BatchOverfull(b) == Len(b) > batchSize

\* batch.length >= batchSize
BatchFull(b) == Len(b) >= batchSize

\* Mutant: a flush that always returns early
FlushIssuesNever(b) == b # b

\* flush() on buffer b: the state it leaves when called by `by`; with an
\* empty buffer it returns at once and touches nothing.
FlushIssues(b) == b # <<>>

\* What a flush called by `by` handed to its insert: toInsert
Flushed(by, b) == [by |-> by, n |-> Len(b)]

\* write(message) of the sink, up to its await (size-triggered flush) or to
\* its end (scheduleFlush).  pipeTo hands over one chunk at a time.
SinkWrite(c) ==
    /\ sink[c] = "open"
    /\ recQ[c] # <<>>
    /\ LET b == Append(batch[c], NewRecord(c, Head(recQ[c]))) IN
        /\ recQ' = [recQ EXCEPT ![c] = Tail(@)]
        /\ index' = [index EXCEPT ![c] = @ + 1]
        /\ IF BatchFull(b)
           THEN /\ inflight' = [inflight EXCEPT ![c] =
                       Append(@, [records |-> b, by |-> "write"])]
                /\ batch' = [batch EXCEPT ![c] = <<>>]
                /\ flushTimer' = [flushTimer EXCEPT ![c] = FALSE]
                /\ timerArmed' = [timerArmed EXCEPT ![c] = FALSE]
                /\ sink' = [sink EXCEPT ![c] = "writing"]
                /\ flushLog' = [flushLog EXCEPT ![c] = Append(@, Flushed("write", b))]
                /\ Issue(SinkStmt(c))
           ELSE /\ batch' = [batch EXCEPT ![c] = b]
                /\ flushTimer' = [flushTimer EXCEPT ![c] = TRUE]
                /\ timerArmed' = [timerArmed EXCEPT ![c] = @ \/ ~flushTimer[c]]
                /\ UNCHANGED <<inflight, sink, dbq, flushLog>>
    /\ UNCHANGED msgs
    /\ UNCHANGED <<src, srcError, nEmitted, procQ>>
    /\ UNCHANGED <<runVars, loopVars, cfgVars, cancelVars>>
    /\ UNCHANGED <<gateVars, emitted, lost>>
    /\ UNCHANGED sideVars

\* Mutant: a timer flush that inserts the buffer without resetting it
TimerFireKeepsBatch(c) ==
    /\ timerArmed[c]
    /\ batch[c] # <<>>
    /\ inflight' = [inflight EXCEPT ![c] =
           Append(@, [records |-> batch[c], by |-> "timer"])]
    /\ flushLog' = [flushLog EXCEPT ![c] = Append(@, [by |-> "timer", n |-> Len(batch[c])])]
    /\ dbq' = Append(dbq, [by |-> "sink", id |-> c])
    /\ timerArmed' = [timerArmed EXCEPT ![c] = FALSE]
    /\ UNCHANGED <<sink, index, msgs, batch, flushTimer>>
    /\ UNCHANGED <<runVars, loopVars, streamVars, cfgVars, cancelVars>>
    /\ UNCHANGED <<gateVars, emitted, lost>>
    /\ UNCHANGED sideVars

\* A timer flush that leaves the fired timer's handle in flushTimer
TimerFireStaleHandle(c) ==
    /\ timerArmed[c]
    /\ timerArmed' = [timerArmed EXCEPT ![c] = FALSE]
    /\ IF FlushIssues(batch[c])
       THEN /\ inflight' = [inflight EXCEPT ![c] =
                   Append(@, [records |-> batch[c], by |-> "timer"])]
            /\ batch' = [batch EXCEPT ![c] = <<>>]
            /\ flushLog' = [flushLog EXCEPT ![c] = Append(@, Flushed("timer", batch[c]))]
            /\ Issue(SinkStmt(c))
       ELSE UNCHANGED <<inflight, batch, dbq, flushLog>>
    /\ UNCHANGED <<sink, index, msgs, flushTimer>>
    /\ UNCHANGED <<runVars, loopVars, streamVars, cfgVars, cancelVars>>
    /\ UNCHANGED <<gateVars, emitted, lost>>
    /\ UNCHANGED sideVars

\* The timeout of scheduleFlush fires and calls flush().
TimerFire(c) ==
    /\ timerArmed[c]
    /\ timerArmed' = [timerArmed EXCEPT ![c] = FALSE]
    /\ IF FlushIssues(batch[c])
       THEN /\ inflight' = [inflight EXCEPT ![c] =
                   Append(@, [records |-> batch[c], by |-> "timer"])]
            /\ batch' = [batch EXCEPT ![c] = <<>>]
            /\ flushTimer' = [flushTimer EXCEPT ![c] = FALSE]
            /\ flushLog' = [flushLog EXCEPT ![c] = Append(@, Flushed("timer", batch[c]))]
            /\ Issue(SinkStmt(c))
       ELSE UNCHANGED <<inflight, batch, flushTimer, dbq, flushLog>>
    /\ UNCHANGED <<sink, index, msgs>>
    /\ UNCHANGED <<runVars, loopVars, streamVars, cfgVars, cancelVars>>
    /\ UNCHANGED <<gateVars, emitted, lost>>
    /\ UNCHANGED sideVars

\* close() of the sink: the branch has ended and every chunk is written.
SinkClose(c) ==
    /\ sink[c] = "open"
    /\ src[c] = "closed"
    /\ recQ[c] = <<>>
    /\ IF FlushIssues(batch[c])
       THEN /\ inflight' = [inflight EXCEPT ![c] =
                   Append(@, [records |-> batch[c], by |-> "close"])]
            /\ batch' = [batch EXCEPT ![c] = <<>>]
            /\ flushTimer' = [flushTimer EXCEPT ![c] = FALSE]
            /\ timerArmed' = [timerArmed EXCEPT ![c] = FALSE]
            /\ sink' = [sink EXCEPT ![c] = "closing"]
            /\ flushLog' = [flushLog EXCEPT ![c] = Append(@, Flushed("close", batch[c]))]
            /\ Issue(SinkStmt(c))
       ELSE /\ sink' = [sink EXCEPT ![c] = "closed"]
            /\ UNCHANGED <<inflight, batch, flushTimer, timerArmed, dbq, flushLog>>
    /\ UNCHANGED <<index, msgs>>
    /\ UNCHANGED <<runVars, loopVars, streamVars, cfgVars, cancelVars>>
    /\ UNCHANGED <<gateVars, emitted, lost>>
    /\ UNCHANGED sideVars

\* Mutant: a pipe that does not pass the source's error on to the sink
SinkAbortPrevented(c) ==
    /\ sink[c] = "open"
    /\ src[c] = "errored"
    /\ UNCHANGED vars

\* abort(reason) of the sink: the branch has errored and no write is pending.
SinkAbort(c) ==
    /\ sink[c] = "open"
    /\ src[c] = "errored"
    /\ timerArmed' = [timerArmed EXCEPT ![c] = FALSE]
    /\ IF FlushIssues(batch[c])
       THEN /\ inflight' = [inflight EXCEPT ![c] =
                   Append(@, [records |-> batch[c], by |-> "abort"])]
            /\ batch' = [batch EXCEPT ![c] = <<>>]
            /\ flushTimer' = [flushTimer EXCEPT ![c] = FALSE]
            /\ sink' = [sink EXCEPT ![c] = "aborting"]
            /\ flushLog' = [flushLog EXCEPT ![c] = Append(@, Flushed("abort", batch[c]))]
            /\ Issue(SinkStmt(c))
       ELSE /\ sink' = [sink EXCEPT ![c] = "aborted"]
            /\ UNCHANGED <<inflight, batch, flushTimer, dbq, flushLog>>
    /\ UNCHANGED <<index, msgs>>
    /\ UNCHANGED <<runVars, loopVars, streamVars, cfgVars, cancelVars>>
    /\ UNCHANGED <<gateVars, emitted, lost>>
    /\ UNCHANGED sideVars

\* The sink state once the flush that `by` awaited has returned
AfterFlush(by, st) ==
    CASE by = "write" -> "open"
      [] by = "close" -> "closed"
      [] by = "abort" -> "aborted"
      [] OTHER -> st

\* db.insert(runMessageTable).values(toInsert) executes, oldest first, and
\* the flush that issued it returns to write/close/abort (a timer's flush
\* returns to nobody).
DbInsertMessages(c) ==
    /\ inflight[c] # <<>>
    /\ Executes(SinkStmt(c))
    /\ LET ins == Head(inflight[c]) IN
        /\ msgs' = [msgs EXCEPT ![c] = @ \o ins.records]
        /\ sink' = [sink EXCEPT ![c] = AfterFlush(ins.by, @)]
    /\ inflight' = [inflight EXCEPT ![c] = Tail(@)]
    /\ UNCHANGED <<index, batch, flushTimer, timerArmed>>
    /\ UNCHANGED <<runVars, loopVars, streamVars, cfgVars, cancelVars>>
    /\ UNCHANGED <<gateVars, histVars>>
    /\ UNCHANGED sideVars

\* getMessages(runId, { limit, offset, fromIndex }): the rows of the run
\* with index >= fromIndex, by ascending index, without the first offset of
\* them, at most limit of them when limit is truthy; each row parsed.
RECURSIVE AscByIndex(_, _)
AscByIndex(table, positions) ==
    IF positions = {} THEN <<>>
    ELSE LET first == CHOOSE i \in positions :
                 \A j \in positions :
                     \/ table[i].index < table[j].index
                     \/ (table[i].index = table[j].index /\ i <= j)
         IN <<table[first]>> \o AscByIndex(table, positions \ {first})

NoLimit == 0

GetMessages(c, limit, offset, fromIndex) ==
    LET matching == {i \in 1..Len(msgs[c]) : msgs[c][i].index >= fromIndex}
        sorted == AscByIndex(msgs[c], matching)
        skipped == SubSeq(sorted, offset + 1, Len(sorted))
        taken == IF limit = NoLimit \/ limit >= Len(skipped) THEN skipped
                 ELSE SubSeq(skipped, 1, limit)
    IN [i \in 1..Len(taken) |-> Parse(taken[i].messageJson)]

\* getRunMessages(runId)
GetRunMessages(c) == GetMessages(c, NoLimit, 0, 0)

\* ---------------------------------------------------------------- cancel
\* Mutant: cancel without the registry check
CancelCallUnchecked(k, r) ==
    /\ cpc[k] = "idle" /\ \A j \in CancelIds : j < k => cpc[j] # "idle"
    /\ activeRun' = [activeRun EXCEPT ![r].aborted = TRUE,
                                      ![r].status = "cancelled"]
    /\ cpc' = [cpc EXCEPT ![k] = "update"]
    /\ dbq' = Append(dbq, [by |-> "cancel", id |-> k])
    /\ ctarget' = [ctarget EXCEPT ![k] = r]
    /\ UNCHANGED <<pc, args, activeRuns, rows, final, result>>
    /\ UNCHANGED <<loopVars, streamVars, sinkVars, cfgVars>>
    /\ UNCHANGED <<gateVars, histVars>>
    /\ UNCHANGED sideVars

NextCancel(k) == cpc[k] = "idle" /\ \A j \in CancelIds : j < k => cpc[j] # "idle"

\* cancel(runId) up to its await, or RunAlreadyCompletedError
CancelCall(k, r) ==
    /\ NextCancel(k)
    /\ IF r \notin activeRuns
       THEN /\ cpc' = [cpc EXCEPT ![k] = "RunAlreadyCompleted"]
            /\ UNCHANGED <<activeRun, dbq>>
       ELSE /\ activeRun' = [activeRun EXCEPT ![r].aborted = TRUE,
                                              ![r].status = "cancelled"]
            /\ cpc' = [cpc EXCEPT ![k] = "update"]
            /\ Issue(CancelStmt(k))
    /\ ctarget' = [ctarget EXCEPT ![k] = r]
    /\ UNCHANGED <<pc, args, activeRuns, rows, final, result>>
    /\ UNCHANGED <<loopVars, streamVars, sinkVars, cfgVars>>
    /\ UNCHANGED <<gateVars, histVars>>
    /\ UNCHANGED sideVars

\* Mutant: the cancel's update without its where clause
DbUpdateCancelledEveryRun(k) ==
    /\ cpc[k] = "update"
    /\ Executes(CancelStmt(k))
    /\ rows' = [d \in DOMAIN rows |-> [rows[d] EXCEPT !.status = "cancelled"]]
    /\ cpc' = [cpc EXCEPT ![k] = "updateDone"]
    /\ UNCHANGED <<pc, args, activeRuns, activeRun, final, result, ctarget>>
    /\ UNCHANGED <<loopVars, streamVars, sinkVars, cfgVars>>
    /\ UNCHANGED <<gateVars, histVars>>
    /\ UNCHANGED sideVars

\* db.update(runTable).set({ status: 'cancelled' }).where(id = runId) executes
DbUpdateCancelled(k) ==
    /\ cpc[k] = "update"
    /\ Executes(CancelStmt(k))
    /\ rows' = IF ctarget[k] \in DOMAIN rows
               THEN [rows EXCEPT ![ctarget[k]].status = "cancelled"]
               ELSE rows
    /\ cpc' = [cpc EXCEPT ![k] = "updateDone"]
    /\ UNCHANGED <<pc, args, activeRuns, activeRun, final, result, ctarget>>
    /\ UNCHANGED <<loopVars, streamVars, sinkVars, cfgVars>>
    /\ UNCHANGED <<gateVars, histVars>>
    /\ UNCHANGED sideVars

\* After the update: activeRuns.delete(runId); cancel resolves.
CancelFinish(k) ==
    /\ cpc[k] = "updateDone"
    /\ UNCHANGED dbq
    /\ activeRuns' = activeRuns \ {ctarget[k]}
    /\ cpc' = [cpc EXCEPT ![k] = "resolved"]
    /\ UNCHANGED <<pc, args, activeRun, rows, final, result, ctarget>>
    /\ UNCHANGED <<loopVars, streamVars, sinkVars, cfgVars>>
    /\ UNCHANGED <<gateVars, histVars>>
    /\ UNCHANGED sideVars

\* ------------------------------------------------------- failing insert
\* The sink state once the flush that `by` awaited has thrown: write() and
\* close() reject, which errors the WritableStream; the timer's flush has
\* its own catch.
AfterFailedFlush(by, st) ==
    CASE by = "write" -> "errored"
      [] by = "close" -> "errored"
      [] by = "abort" -> "aborted"
      [] OTHER -> st

\* Mutant: a recorder that marks the run failed when an insert throws
DbInsertFailsRun(c) ==
    /\ inflight[c] # <<>>
    /\ Len(lost[c]) < MaxFails
    /\ dbq # <<>> /\ Head(dbq) = [by |-> "sink", id |-> c] /\ dbq' = Tail(dbq)
    /\ lost' = [lost EXCEPT ![c] = Append(@, Head(inflight[c]).records)]
    /\ sink' = [sink EXCEPT ![c] = "errored"]
    /\ recQ' = [recQ EXCEPT ![c] = <<>>]
    /\ rows' = [rows EXCEPT ![c].status = "error"]
    /\ inflight' = [inflight EXCEPT ![c] = Tail(@)]
    /\ UNCHANGED <<index, batch, flushTimer, timerArmed, msgs>>
    /\ UNCHANGED <<src, srcError, nEmitted, procQ>>
    /\ UNCHANGED <<pc, args, activeRuns, activeRun, final, result>>
    /\ UNCHANGED <<loopVars, cfgVars, cancelVars>>
    /\ UNCHANGED <<gateVars, emitted, flushLog>>
    /\ UNCHANGED sideVars

\* Mutant: a splitter that tears the source down with the failed branch
DbInsertFailsSource(c) ==
    /\ inflight[c] # <<>>
    /\ Len(lost[c]) < MaxFails
    /\ dbq # <<>> /\ Head(dbq) = [by |-> "sink", id |-> c] /\ dbq' = Tail(dbq)
    /\ lost' = [lost EXCEPT ![c] = Append(@, Head(inflight[c]).records)]
    /\ sink' = [sink EXCEPT ![c] = "errored"]
    /\ recQ' = [recQ EXCEPT ![c] = <<>>]
    /\ procQ' = [procQ EXCEPT ![c] = <<>>]
    /\ src' = [src EXCEPT ![c] = IF @ = "open" THEN "closed" ELSE @]
    /\ inflight' = [inflight EXCEPT ![c] = Tail(@)]
    /\ UNCHANGED <<index, batch, flushTimer, timerArmed, msgs>>
    /\ UNCHANGED <<srcError, nEmitted>>
    /\ UNCHANGED <<runVars, loopVars, cfgVars, cancelVars>>
    /\ UNCHANGED <<gateVars, emitted, flushLog>>
    /\ UNCHANGED sideVars

\* db.insert(runMessageTable).values(toInsert) throws: the batch is gone.
\* A sink that errors makes pipeTo reject (logged by processStream's catch)
\* and cancel the recording branch of the tee.
DbInsertFails(c) ==
    /\ inflight[c] # <<>>
    /\ Len(lost[c]) < MaxFails
    /\ Executes(SinkStmt(c))
    /\ LET ins == Head(inflight[c]) IN
        /\ lost' = [lost EXCEPT ![c] = Append(@, ins.records)]
        /\ sink' = [sink EXCEPT ![c] = AfterFailedFlush(ins.by, @)]
        /\ recQ' = [recQ EXCEPT ![c] =
               IF AfterFailedFlush(ins.by, sink[c]) = "errored" THEN <<>> ELSE @]
    /\ inflight' = [inflight EXCEPT ![c] = Tail(@)]
    /\ UNCHANGED <<index, batch, flushTimer, timerArmed, msgs>>
    /\ UNCHANGED <<src, srcError, nEmitted, procQ>>
    /\ UNCHANGED <<runVars, loopVars, cfgVars, cancelVars>>
    /\ UNCHANGED <<gateVars, emitted, flushLog>>
    /\ UNCHANGED sideVars

\* ------------------------------------------------------- input generator
\* Mutant: a generator that returns without awaiting receivedResult
InputNextNoGate(c) ==
    /\ \/ /\ gen[c].at = "created"
          /\ gen' = [gen EXCEPT ![c] = [at |-> "yielded", yielded |-> @.yielded + 1]]
       \/ /\ gen[c].at = "yielded"
          /\ gen' = [gen EXCEPT ![c].at = "returned"]
    /\ UNCHANGED <<runVars, loopVars, streamVars, recVars, cfgVars, cancelVars>>
    /\ UNCHANGED <<received, histVars>>
    /\ UNCHANGED sideVars

\* The provider asks the prompt generator of execute() for its next value:
\* the generator yields sdkUserMessage, then waits at `await receivedResult`
\* and returns (end of input) once that promise is resolved.
InputNext(c) ==
    /\ \/ /\ gen[c].at = "created"
          /\ gen' = [gen EXCEPT ![c] = [at |-> "yielded", yielded |-> @.yielded + 1]]
       \/ /\ gen[c].at = "yielded"
          /\ gen' = [gen EXCEPT ![c].at = "awaiting"]
       \/ /\ gen[c].at = "awaiting"
          /\ received[c]
          /\ gen' = [gen EXCEPT ![c].at = "returned"]
    /\ UNCHANGED <<runVars, loopVars, streamVars, recVars, cfgVars, cancelVars>>
    /\ UNCHANGED <<received, histVars>>
    /\ UNCHANGED sideVars

\* ------------------------------------------------------------- webhook.ts
Url1 == <<"url", 1>>
WebhookUrls == {Url1}
WebhookEventTypes == {"run.started", "run.completed", "run.failed", "run.error"}
WebhookEvents == [event : WebhookEventTypes, runId : {1}]

\* A caller that waits for the request: it gets control back with the request
\* settled.
DispatchWebhookAwaited(url, event) ==
    /\ Len(hooks) < MaxDispatches
    /\ \E outcome \in {"ok", "non2xx", "timeout", "failed"} :
          hooks' = Append(hooks, [url |-> url, event |-> event, requests |-> 1,
                                  fetch |-> outcome, timer |-> FALSE])
    /\ UNCHANGED <<runVars, loopVars, streamVars, recVars, cfgVars, cancelVars>>
    /\ UNCHANGED <<gateVars, histVars, webhookUrl, sdkVars, stateVars>>

\* dispatchWebhook(url, event): sendWebhook runs up to its await, which arms
\* the timeout and issues the one fetch; the promise gets a catch handler and
\* the call returns.
DispatchWebhook(url, event) ==
    /\ Len(hooks) < MaxDispatches
    /\ hooks' = Append(hooks, [url |-> url, event |-> event, requests |-> 1,
                              fetch |-> "pending", timer |-> TRUE])
    /\ UNCHANGED <<runVars, loopVars, streamVars, recVars, cfgVars, cancelVars>>
    /\ UNCHANGED <<gateVars, histVars, webhookUrl, sdkVars, stateVars>>

\* fetch resolves with a response: clearTimeout, then the status is logged.
FetchResolves(i, ok) ==
    /\ i \in 1..Len(hooks)
    /\ hooks[i].fetch = "pending"
    /\ hooks' = [hooks EXCEPT ![i].fetch = IF ok THEN "ok" ELSE "non2xx",
                              ![i].timer = FALSE]
    /\ UNCHANGED <<runVars, loopVars, streamVars, recVars, cfgVars, cancelVars>>
    /\ UNCHANGED <<gateVars, histVars, webhookUrl, sdkVars, stateVars>>

\* fetch rejects for a reason other than the abort: the catch block logs it.
\* clearTimeout is not reached.
FetchRejects(i) ==
    /\ i \in 1..Len(hooks)
    /\ hooks[i].fetch = "pending"
    /\ hooks' = [hooks EXCEPT ![i].fetch = "failed"]
    /\ UNCHANGED <<runVars, loopVars, streamVars, recVars, cfgVars, cancelVars>>
    /\ UNCHANGED <<gateVars, histVars, webhookUrl, sdkVars, stateVars>>

\* The timeout of WEBHOOK_TIMEOUT_MS fires: abortController.abort().  A
\* pending fetch rejects with an AbortError, which the catch block logs.
TimeoutFires(i) ==
    /\ i \in 1..Len(hooks)
    /\ hooks[i].timer
    /\ hooks' = [hooks EXCEPT ![i].timer = FALSE,
                              ![i].fetch = IF @ = "pending" THEN "timeout" ELSE @]
    /\ UNCHANGED <<runVars, loopVars, streamVars, recVars, cfgVars, cancelVars>>
    /\ UNCHANGED <<gateVars, histVars, webhookUrl, sdkVars, stateVars>>

\* ------------------------------------------------------- utils/state.ts
\* What the run model keeps while a State instance is used
RunModelUnchanged ==
    /\ UNCHANGED <<runVars, loopVars, streamVars, recVars, cfgVars, cancelVars>>
    /\ UNCHANGED <<gateVars, histVars, hookVars, sdkVars>>

\* tryInitSync(): nothing to do when initialized or when an initialization
\* is pending; else config.init() runs, and its result is stored, or, when
\* it is a promise, a continuation that will store it is attached.
TryInitSync ==
    IF initialized \/ initPromise # Null
    THEN UNCHANGED <<state, initialized, initPromise, promises, inits>>
    ELSE /\ inits' = inits + 1
         /\ IF kind = "async"
            THEN /\ initPromise' = PromiseOf(inits')
                 /\ promises' = [promises EXCEPT ![inits'] = "pending"]
                 /\ UNCHANGED <<state, initialized>>
            ELSE /\ state' = Result(inits')
                 /\ initialized' = TRUE
                 /\ UNCHANGED <<initPromise, promises>>

\* config.init may run once more.
MayInit == initialized \/ initPromise # Null \/ inits < MaxInits

\* get(): tryInitSync(); return state ?? {}
StateGet ==
    /\ got.calls < MaxGets
    /\ MayInit
    /\ TryInitSync
    /\ got' = [calls |-> got.calls + 1, by |-> "get",
               value |-> IF state' = Undefined THEN EmptyObject ELSE state']
    /\ afterReset' = FALSE
    /\ UNCHANGED <<kind, resets, sets>>
    /\ RunModelUnchanged

\* getAsync(): ensureInitialized() returns the state, or the pending
\* promise.
StateGetAsync ==
    /\ got.calls < MaxGets
    /\ MayInit
    /\ IF initialized /\ state # Undefined
       THEN /\ UNCHANGED <<state, initialized, initPromise, promises, inits>>
            /\ got' = [calls |-> got.calls + 1, by |-> "getAsync", value |-> state]
       ELSE /\ TryInitSync
            /\ got' = [calls |-> got.calls + 1, by |-> "getAsync",
                       value |-> IF initialized' /\ state' # Undefined
                                 THEN state' ELSE initPromise']
    /\ afterReset' = FALSE
    /\ UNCHANGED <<kind, resets, sets>>
    /\ RunModelUnchanged

\* reset(): state = undefined; initialized = false; initPromise = null
StateReset ==
    /\ resets < MaxResets
    /\ state' = Undefined
    /\ initialized' = FALSE
    /\ initPromise' = Null
    /\ resets' = resets + 1
    /\ afterReset' = TRUE
    /\ UNCHANGED <<kind, promises, inits, got, sets>>
    /\ RunModelUnchanged

\* The promise of the n-th config.init() resolves and its continuation
\* runs: state = r; initialized = true; initPromise = null.
InitResolves(n) ==
    /\ n \in 1..MaxInits
    /\ promises[n] = "pending"
    /\ promises' = [promises EXCEPT ![n] = "resolved"]
    /\ state' = Result(n)
    /\ initialized' = TRUE
    /\ initPromise' = Null
    /\ UNCHANGED <<kind, inits, resets, afterReset, got, sets>>
    /\ RunModelUnchanged

\* The result of updater u applied to value v
Updated(u, v) == <<"updated", u, v>>

\* What has happened so far that separates two calls: get calls, resets,
\* resolved initializations and resumed set calls
Issued ==
    <<got.calls, resets,
      Cardinality({n \in 1..MaxInits : promises[n] = "resolved"}),
      Cardinality({u \in 1..MaxSets : sets[u].at = "resolved"})>>

\* set(updater) of createAsyncState up to its await: ensureInit() returns
\* the state, or the pending promise, or starts config.init(); the call
\* waits for it at `const current = await ensureInit()`.
StateSetAsync(u) ==
    /\ kind = "async"
    /\ sets[u].at = "none"
    /\ \A w \in 1..MaxSets : w < u => sets[w].at # "none"
    /\ MayInit
    /\ IF initialized /\ state # Undefined
       THEN UNCHANGED <<state, initialized, initPromise, promises, inits>>
       ELSE TryInitSync
    /\ sets' = [sets EXCEPT ![u] =
           [at |-> "awaiting",
            current |-> IF initialized' /\ state' # Undefined
                        THEN state' ELSE initPromise',
            issued |-> Issued]]
    /\ afterReset' = FALSE
    /\ UNCHANGED <<kind, resets, got>>
    /\ RunModelUnchanged

\* The await of set call u completes, after those of the earlier calls that
\* wait for the same promise or for a value: state = updater(current).
SetResumes(u) ==
    /\ sets[u].at = "awaiting"
    /\ LET cur == sets[u].current IN
         /\ cur[1] = "promise" => promises[cur[2]] = "resolved"
         /\ \A w \in 1..MaxSets :
                (w < u /\ sets[w].at = "awaiting")
                    => sets[w].current[1] = "promise" /\ sets[w].current # cur
         /\ state' = Updated(u, IF cur[1] = "promise" THEN Result(cur[2]) ELSE cur)
    /\ sets' = [sets EXCEPT ![u].at = "resolved"]
    /\ UNCHANGED <<kind, initialized, initPromise, promises, inits, resets,
                   afterReset, got>>
    /\ RunModelUnchanged

\* --------------------------------------------------------- specification
\* The orchestrator: MaxRuns calls of start/resume/fork, running concurrently,
\* and cancel calls on any of them.
Init == InitWith({DefaultBatchSize}, RunsMaxMsgs)

Next ==
    \/ \E c \in RunIds : StartCall(c)
    \/ \E c \in RunIds : ResumeCall(c)
    \/ \E c \in RunIds : ForkCall(c)
    \/ \E c \in RunIds : AfterLookup(c)
    \/ \E c \in RunIds : BeginExecute(c)
    \/ \E c \in RunIds : ProviderPull(c)
    \/ \E c \in RunIds : ProcRead(c)
    \/ \E c \in RunIds : DbUpdateSession(c)
    \/ \E c \in RunIds : DbUpdateFinal(c)
    \/ \E c \in RunIds : Finish(c)
    \/ \E c \in RunIds : SinkWrite(c)
    \/ \E c \in RunIds : TimerFire(c)
    \/ \E c \in RunIds : SinkClose(c)
    \/ \E c \in RunIds : SinkAbort(c)
    \/ \E c \in RunIds : DbInsertMessages(c)
    \/ \E k \in 1..RunsMaxCancels, r \in RunIds : CancelCall(k, r)
    \/ \E k \in 1..RunsMaxCancels : DbUpdateCancelled(k)
    \/ \E k \in 1..RunsMaxCancels : CancelFinish(k)

Spec == Init /\ [][Next]_vars

\* One start with a longer turn, and overlapping cancel calls on it.
InitCancel == InitWith({DefaultBatchSize}, CancelMaxMsgs)

NextCancelSpec ==
    \/ StartCall(1)
    \/ BeginExecute(1)
    \/ ProviderPull(1)
    \/ ProcRead(1)
    \/ DbUpdateSession(1)
    \/ DbUpdateFinal(1)
    \/ Finish(1)
    \/ SinkWrite(1)
    \/ TimerFire(1)
    \/ SinkClose(1)
    \/ SinkAbort(1)
    \/ DbInsertMessages(1)
    \/ \E k \in CancelIds : CancelCall(k, 1)
    \/ \E k \in CancelIds : DbUpdateCancelled(k)
    \/ \E k \in CancelIds : CancelFinish(k)

SpecCancel == InitCancel /\ [][NextCancelSpec]_vars

\* The recorder: one start whose sink is created with options.batchSize in
\* 1..MaxBatch, and no cancel.
InitRec == InitWith(1..MaxBatch, RecMaxMsgs)

NextRec ==
    \/ StartCall(1)
    \/ BeginExecute(1)
    \/ ProviderPull(1)
    \/ ProcRead(1)
    \/ DbUpdateSession(1)
    \/ DbUpdateFinal(1)
    \/ Finish(1)
    \/ SinkWrite(1)
    \/ TimerFire(1)
    \/ SinkClose(1)
    \/ SinkAbort(1)
    \/ DbInsertMessages(1)

SpecRec == InitRec /\ [][NextRec]_vars

\* The recorder with inserts that may fail.
InitFail == InitWith(1..FailMaxBatch, FailMaxMsgs)

NextFail ==
    \/ NextRec
    \/ DbInsertFails(1)

SpecFail == InitFail /\ [][NextFail]_vars

\* The turn gate: one start, and the provider reading its input.
InitGate == InitWith({DefaultBatchSize}, GateMaxMsgs)

NextGate ==
    \/ NextRec
    \/ InputNext(1)

SpecGate == InitGate /\ [][NextGate]_vars

\* One start under the event loop's scheduling: a continuation, a sink
\* callback, a timer or a statement that is ready does run.  Nothing is
\* assumed of the provider.
InitLive == InitWith(1..LiveMaxBatch, LiveMaxMsgs)

Scheduled ==
    /\ WF_vars(ProcRead(1))
    /\ WF_vars(DbUpdateSession(1))
    /\ WF_vars(DbUpdateFinal(1))
    /\ WF_vars(Finish(1))
    /\ WF_vars(SinkWrite(1))
    /\ WF_vars(TimerFire(1))
    /\ WF_vars(SinkClose(1))
    /\ WF_vars(SinkAbort(1))
    /\ WF_vars(DbInsertMessages(1))

SpecLive == InitLive /\ [][NextRec]_vars /\ Scheduled

\* The turn gate under the event loop's scheduling; the provider asks for
\* its next input whenever the generator can answer.
SpecInput == InitGate /\ [][NextGate]_vars /\ Scheduled /\ WF_vars(InputNext(1))

\* One start whose parameters may carry a webhookUrl.
InitNotify ==
    /\ InitRuns({DefaultBatchSize}, NotifyMaxMsgs)
    /\ webhookUrl \in [RunIds -> WebhookUrls \cup {Undefined}]
    /\ hooks = <<>>
    /\ NoSdk
    /\ InitState({"sync"})

SpecNotify == InitNotify /\ [][NextRec]_vars

\* The webhook dispatcher, called with any url and event.
InitHook == InitWith({DefaultBatchSize}, 0)

NextHook ==
    \/ \E url \in WebhookUrls, event \in WebhookEvents : DispatchWebhook(url, event)
    \/ \E i \in 1..MaxDispatches, ok \in BOOLEAN : FetchResolves(i, ok)
    \/ \E i \in 1..MaxDispatches : FetchRejects(i)
    \/ \E i \in 1..MaxDispatches : TimeoutFires(i)

SpecHook == InitHook /\ [][NextHook]_vars

\* One start and one cancel call on it under the event loop's scheduling: what
\* Scheduled names, and the continuations of a cancel call.  Nothing is
\* assumed of the provider, nor of when cancel is called.
InitEnd == InitWith({DefaultBatchSize}, EndMaxMsgs)

NextEnd ==
    \/ NextRec
    \/ CancelCall(1, 1)
    \/ DbUpdateCancelled(1)
    \/ CancelFinish(1)

ScheduledCancel ==
    /\ WF_vars(DbUpdateCancelled(1))
    /\ WF_vars(CancelFinish(1))

SpecEnd == InitEnd /\ [][NextEnd]_vars /\ Scheduled /\ ScheduledCancel

\* A start, then a resume or fork whose parameters carry options.
CallerOptions ==
    {[model |-> "m"],
     [model |-> "m", cwd |-> <<"/", "x">>],
     [forkSession |-> FALSE, resume |-> S2],
     [cwd |-> <<"/", "x">>, forkSession |-> FALSE, resume |-> <<"z">>]}

InitSdk ==
    /\ InitRuns({DefaultBatchSize}, SdkMaxMsgs)
    /\ NoHooks
    /\ options \in [RunIds -> CallerOptions]
    /\ sdkOptions = [c \in RunIds |-> NoOptions]
    /\ InitState({"sync"})

NextSdk ==
    \/ StartCall(1)
    \/ ResumeCall(2)
    \/ ForkCall(2)
    \/ AfterLookup(2)
    \/ \E c \in RunIds :
          \/ BeginExecute(c)
          \/ ProviderPull(c)
          \/ ProcRead(c)
          \/ DbUpdateSession(c)
          \/ DbUpdateFinal(c)
          \/ Finish(c)
          \/ SinkWrite(c)
          \/ TimerFire(c)
          \/ SinkClose(c)
          \/ SinkAbort(c)
          \/ DbInsertMessages(c)

SpecSdk == InitSdk /\ [][NextSdk]_vars

\* One State instance with a synchronous or an asynchronous initializer.
InitStateSpec ==
    /\ InitRuns({DefaultBatchSize}, 0)
    /\ NoHooks
    /\ NoSdk
    /\ InitState({"sync", "async"})

NextState ==
    \/ StateGet
    \/ StateGetAsync
    \/ StateReset
    \/ \E n \in 1..MaxInits : InitResolves(n)

SpecState == InitStateSpec /\ [][NextState]_vars

\* One asynchronous State instance: get, set and reset calls, and the
\* microtasks that resolve its initializations and resume its set calls.
InitSet ==
    /\ InitRuns({DefaultBatchSize}, 0)
    /\ NoHooks
    /\ NoSdk
    /\ InitState({"async"})

NextSet ==
    \/ StateGetAsync
    \/ StateReset
    \/ \E n \in 1..MaxInits : InitResolves(n)
    \/ \E u \in 1..MaxSets : StateSetAsync(u)
    \/ \E u \in 1..MaxSets : SetResumes(u)

SpecSet == InitSet /\ [][NextSet]_vars

\* ================================================================ claims
TerminalStatuses == {"completed", "error", "cancelled"}

\* The named cancel call has passed the registry check.
CancelAdmitted(k) == cpc[k] \in {"update", "updateDone", "resolved"}

\* C1: once the persisted status of a run is completed, error or cancelled,
\* no step changes it.
C1_TerminalStatusIsFinal ==
    [][\A c \in DOMAIN rows :
          rows[c].status \in TerminalStatuses => rows'[c].status = rows[c].status]_vars

\* C2: cancel on a registered run signals the run's abort controller, and
\* at the step cancel resolves the Run row has status cancelled and the run
\* is out of the registry.
C2_CancelResolvesCancelled ==
    [][\A k \in CancelIds :
          cpc[k] = "updateDone" /\ cpc'[k] = "resolved"
              => /\ activeRun'[ctarget[k]].aborted
                 /\ ctarget[k] \notin activeRuns'
                 /\ rows'[ctarget[k]].status = "cancelled"]_vars

\* C3: a cancel call for a run that is not in the registry fails with
\* RunAlreadyCompleted and changes neither the registry nor any Run row.
C3_CancelUnregisteredRejects ==
    [][\A k \in CancelIds :
          cpc[k] = "idle" /\ cpc'[k] # "idle" /\ ctarget'[k] \notin activeRuns
              => /\ cpc'[k] = "RunAlreadyCompleted"
                 /\ UNCHANGED <<activeRuns, activeRun, rows>>]_vars

\* C3 witness: a cancel was rejected for a run that had already resolved.
C3_Witness ==
    \E k \in CancelIds :
        /\ cpc[k] = "RunAlreadyCompleted"
        /\ pc[ctarget[k]] = "resolved"
        /\ rows[ctarget[k]].status \in TerminalStatuses

\* C4: of two cancel calls for the same run, at most one passes the
\* registry check (signals the handle and writes cancelled).
C4_CancelledExactlyOnce ==
    \A j, k \in CancelIds :
        j # k /\ CancelAdmitted(j) /\ CancelAdmitted(k) => ctarget[j] # ctarget[k]

\* C5: a run is in the registry exactly when its ActiveRun has status running.
C5_RegisteredIffRunning ==
    \A c \in RunIds :
        activeRun[c].status # "none"
            => (c \in activeRuns <=> activeRun[c].status = "running")

\* The claim's notion of an empty or whitespace-only value
WhitespaceOnly(v) == v = Undefined \/ \A i \in 1..Len(v) : v[i] = Blank

\* The call whose arguments are a has an empty or whitespace-only prompt,
\* cwd (start) or sessionId (resume, fork).
BlankCall(a) ==
    \/ WhitespaceOnly(a.prompt)
    \/ a.mode = "fresh" /\ WhitespaceOnly(a.cwd)
    \/ a.mode # "fresh" /\ WhitespaceOnly(a.sessionId)

\* C6: when the stream of a turn has errored, the completion path writes
\* status error with the exception message to the Run row, and the call
\* resolves (it is never rejected) with status error and that message,
\* the run being out of the registry; the row still has status error then,
\* unless a cancel of the run was admitted meanwhile (C1).
C6_ProviderErrorBecomesErrorResult ==
    [][\A c \in RunIds :
          src[c] = "errored"
              => /\ pc'[c] \notin {"ValidationError", "SessionNotFound"}
                 /\ pc[c] = "final" /\ pc'[c] = "finalDone"
                        => /\ rows'[c].status = "error"
                           /\ rows'[c].resultJson.error = srcError[c]
                 /\ pc[c] = "finalDone" /\ pc'[c] = "resolved"
                        => /\ result'[c].status = "error"
                           /\ result'[c].error = srcError[c]
                           /\ c \notin activeRuns'
                           /\ (\A k \in CancelIds :
                                   ~(CancelAdmitted(k) /\ ctarget[k] = c))
                                  => rows'[c].status = "error"]_vars

\* C6 witness: a resume or fork whose provider failed has resolved.
C6_Witness ==
    \E c \in RunIds :
        /\ pc[c] = "resolved"
        /\ src[c] = "errored"
        /\ args[c].mode # "fresh"
        /\ result[c].error = ProviderError

\* C7: a call with an empty or whitespace-only prompt, cwd or sessionId is
\* rejected with ValidationError in a step that creates no Run row, no
\* RunMessage row, no registry entry, no statement and no provider call.
C7_ValidationCreatesNothing ==
    [][\A c \in RunIds :
          pc[c] = "idle" /\ pc'[c] # "idle" /\ BlankCall(args'[c])
              => /\ pc'[c] = "ValidationError"
                 /\ UNCHANGED <<rows, msgs, inflight, activeRuns, activeRun,
                                src, dbq>>]_vars

\* C7 witness: a fork with a whitespace-only sessionId was rejected while
\* another run had its row.
C7_Witness ==
    \E c \in RunIds :
        /\ pc[c] = "ValidationError"
        /\ args[c].mode = "fork"
        /\ args[c].prompt = <<"p">>
        /\ args[c].sessionId = <<Blank>>
        /\ DOMAIN rows # {}

\* C8: when the select of resume/fork executes and no Run row has the
\* sessionId, the call is rejected with SessionNotFound in a step that
\* creates no row and no registry entry; a call rejected so has opened no
\* provider call and has no Run row and no RunMessage rows.
C8_UnknownSessionCreatesNothing ==
    /\ [][\A c \in RunIds :
            /\ pc[c] = "lookup" /\ pc'[c] # "lookup"
            /\ \A d \in DOMAIN rows : rows[d].sessionId # args[c].sessionId
            => /\ pc'[c] = "SessionNotFound"
               /\ UNCHANGED <<rows, msgs, inflight, activeRuns, activeRun, src>>]_vars
    /\ [](\A c \in RunIds :
            pc[c] = "SessionNotFound"
                => /\ src[c] = "none"
                   /\ c \notin DOMAIN rows
                   /\ msgs[c] = <<>>
                   /\ c \notin activeRuns)

\* C8 witness: a call was rejected with SessionNotFound while the table
\* held the row of another session.
C8_Witness ==
    \E c \in RunIds :
        /\ pc[c] = "SessionNotFound"
        /\ \E d \in DOMAIN rows : rows[d].sessionId # <<>>

\* The index values of the persisted RunMessage rows of run c
PersistedIndexes(c) == {msgs[c][i].index : i \in 1..Len(msgs[c])}

C10_RecordedWhenResolved ==
    \A c \in RunIds :
        pc[c] = "resolved" /\ result[c].status = "completed"
            => GetRunMessages(c) = seen[c]

\* Every record the sink of run c has built, wherever it is now
Records(c) ==
    {msgs[c][i] : i \in 1..Len(msgs[c])}
        \cup {batch[c][i] : i \in 1..Len(batch[c])}
        \cup UNION {{inflight[c][j].records[i] : i \in 1..Len(inflight[c][j].records)}
                        : j \in 1..Len(inflight[c])}
        \cup UNION {{lost[c][j][i] : i \in 1..Len(lost[c][j])} : j \in 1..Len(lost[c])}

RecordAt(c, i) == CHOOSE r \in Records(c) : r.index = i

\* The messages each branch of the tee has been given, in order: those its
\* consumer has taken, then those it still holds.
ProcReceived(c) == seen[c] \o procQ[c]
RecReceived(c) ==
    [i \in 1..index[c] |-> Parse(RecordAt(c, i - 1).messageJson)] \o recQ[c]

\* C11: every message the source enqueues is given, in the same step, to
\* both branches at their tails; while the source has not errored, what
\* each branch has been given (consumed or still queued) is the source
\* sequence itself, however far apart the two consumers are.
C11_TeeDeliversToBoth ==
    /\ [](\A c \in RunIds :
            src[c] \in {"open", "closed"}
                => /\ ProcReceived(c) = emitted[c]
                   /\ {r.index : r \in Records(c)} = 0..(index[c] - 1)
                   /\ RecReceived(c) = emitted[c])
    /\ [][\A c \in RunIds :
            emitted'[c] # emitted[c]
                => \E m \in Messages :
                      /\ emitted'[c] = Append(emitted[c], m)
                      /\ procQ'[c] = Append(procQ[c], m)
                      /\ recQ'[c] = Append(recQ[c], m)]_vars

\* C11 witness: the processing branch is drained to the end before the
\* recorder has taken its first message.
C11_Witness ==
    /\ src[1] = "closed"
    /\ Len(seen[1]) = 3
    /\ procQ[1] = <<>>
    /\ index[1] = 0
    /\ Len(recQ[1]) = 3

\* The result message a loop that read ms has retained: the last one
RECURSIVE LastResult(_)
LastResult(ms) ==
    IF ms = <<>> THEN NoMsg
    ELSE IF ms[Len(ms)].type = "result" THEN ms[Len(ms)]
    ELSE LastResult(SubSeq(ms, 1, Len(ms) - 1))

\* The status the claim expects of a turn whose messages were ms
ExpectedStatus(ms) ==
    IF LastResult(ms) # NoMsg /\ LastResult(ms).subtype # <<>>
           /\ LastResult(ms).subtype[1] = "error"
    THEN "error" ELSE "completed"

\* C12: a recorder sink that fails takes nothing from the processing
\* branch: the step of the failure leaves that branch and the source as
\* they are, the loop can still read whenever a message or the end is
\* there, the branch is still given every source message in order, and a
\* run whose source closed resolves having read all of them, with the
\* status their result message calls for.
C12_SinkFailureLeavesProcessing ==
    /\ [](\A c \in RunIds :
            /\ src[c] \in {"open", "closed"} => ProcReceived(c) = emitted[c]
            /\ /\ sink[c] = "errored"
               /\ pc[c] = "read"
               /\ procQ[c] # <<>> \/ src[c] \in {"closed", "errored"}
               => ENABLED ProcRead(c)
            /\ pc[c] = "resolved" /\ src[c] = "closed"
               => /\ seen[c] = emitted[c]
                  /\ result[c].status = ExpectedStatus(emitted[c]))
    /\ [][\A c \in RunIds :
            lost'[c] # lost[c]
                => UNCHANGED <<procQ, seen, src, srcError, pc, final, result>>]_vars

\* C12 witness: the sink failed after its first message and the run
\* completed having read all three.
C12_Witness ==
    /\ sink[1] = "errored"
    /\ index[1] = 1
    /\ pc[1] = "resolved"
    /\ result[1].status = "completed"
    /\ Len(seen[1]) = 3

\* The processing loop of run c has ended.
LoopEnded(c) == pc[c] \in {"final", "finalDone", "resolved"}

\* C13: once the provider's sequence has ended, by an error or by closing
\* (with or without a result message), the processing loop ends and the
\* recorder sink is closed or aborted; the loop that ended on an error has
\* raised it, and the sink is aborted exactly for an errored source.
C13_SourceEndReachesBoth ==
    /\ (src[1] \in {"closed", "errored"})
           ~> (LoopEnded(1) /\ sink[1] \in {"closed", "aborted"})
    /\ [](/\ LoopEnded(1) /\ src[1] = "errored"
             => final[1].status = "error" /\ final[1].error = srcError[1]
          /\ sink[1] \in {"closing", "closed"} => src[1] = "closed"
          /\ sink[1] \in {"aborting", "aborted"} => src[1] = "errored")

\* C13 witness: the source errored after messages were read and buffered;
\* the loop has ended and the sink was aborted with a final flush.
C13_Witness ==
    /\ src[1] = "errored"
    /\ LoopEnded(1)
    /\ seen[1] # <<>>
    /\ sink[1] = "aborted"
    /\ \E i \in 1..Len(flushLog[1]) : flushLog[1][i].by = "abort"

\* A message of type result has been pulled from the provider's output.
ResultPulled(c) == \E i \in 1..Len(emitted[c]) : emitted[c][i].type = "result"

\* C14: the input generator yields one user message, never a second, and
\* has returned (end of input) only if a result message has been pulled
\* from the provider's output; the step in which it returns is taken with
\* the result already pulled, whatever the consumers have read.
C14_InputOpenUntilResult ==
    /\ [](\A c \in RunIds :
            /\ gen[c].yielded <= 1
            /\ gen[c].at \in {"yielded", "awaiting", "returned"} => gen[c].yielded = 1
            /\ gen[c].at = "returned" => ResultPulled(c))
    /\ [][\A c \in RunIds :
            gen[c].at # "returned" /\ gen'[c].at = "returned"
                => gen[c].at = "awaiting" /\ ResultPulled(c)]_vars

\* C14 witness: the generator has returned while no consumer has read the
\* result message yet.
C14_Witness ==
    /\ gen[1].at = "returned"
    /\ gen[1].yielded = 1
    /\ seen[1] = <<>>
    /\ index[1] = 0

\* The session id a loop that read ms has captured: that of the last init
RECURSIVE LastSession(_)
LastSession(ms) ==
    IF ms = <<>> THEN <<>>
    ELSE IF ms[Len(ms)].type = "system" /\ ms[Len(ms)].subtype = <<"init">>
         THEN ms[Len(ms)].session_id
    ELSE LastSession(SubSeq(ms, 1, Len(ms) - 1))

\* The outcome of run c as its source and the messages its loop read
\* decide it, the recorder left aside.
OutcomeStatus(c) ==
    IF src[c] = "errored" THEN "error" ELSE ExpectedStatus(seen[c])
OutcomeError(c) == IF src[c] = "errored" THEN srcError[c] ELSE NoError

\* C15: the step in which an insert of RunMessage rows fails changes
\* neither the call's position and result nor the Run rows, and it raises
\* nothing to the caller; the status, session and error the call persists
\* and resolves with are those its source and the messages it read decide,
\* whether or not an insert failed.
C15_InsertFailureKeepsOutcome ==
    /\ [][\A c \in RunIds :
            lost'[c] # lost[c]
                => UNCHANGED <<pc, final, result, rows, activeRuns, src, srcError>>]_vars
    /\ [](\A c \in RunIds :
            /\ pc[c] \in {"finalDone", "resolved"}
                   => rows[c].status = OutcomeStatus(c)
            /\ pc[c] = "resolved"
                   => /\ result[c].status = OutcomeStatus(c)
                      /\ result[c].error = OutcomeError(c)
                      /\ result[c].sessionId = LastSession(seen[c]))

\* C15 witness: an insert failed, rows are missing, and the run resolved
\* completed with its session.
C15_Witness ==
    /\ lost[1] # <<>>
    /\ pc[1] = "resolved"
    /\ result[1].status = "completed"
    /\ result[1].sessionId = S1
    /\ Len(msgs[1]) < Len(seen[1])

\* C16 as claimed: an insert that fails leaves the sink writable (it does
\* not error the WritableStream), so later messages can still be written.
C16_FailedFlushKeepsSinkWritable ==
    [][\A c \in RunIds :
          lost'[c] # lost[c] /\ sink[c] \in {"open", "writing"}
              => sink'[c] \in {"open", "writing"} /\ recQ'[c] = recQ[c]]_vars

\* C17: when close() or abort() of the sink has completed, the buffer is
\* empty, the flush it awaited has returned, and every record the sink ever
\* built was handed to an insert (executed, pending or failed), none left
\* behind; the step that starts a close or abort with records buffered
\* hands all of them to one insert.
C17_FinalFlushOnCloseOrAbort ==
    /\ [](\A c \in RunIds :
            sink[c] \in {"closed", "aborted"}
                => /\ batch[c] = <<>>
                   /\ \A j \in 1..Len(inflight[c]) :
                          inflight[c][j].by \notin {"close", "abort"}
                   /\ {r.index : r \in Records(c)} = 0..(index[c] - 1))
    /\ [][\A c \in RunIds :
            sink[c] = "open" /\ sink'[c] \in {"closing", "aborting", "closed", "aborted"}
                => /\ batch'[c] = <<>>
                   /\ batch[c] # <<>>
                        => /\ sink'[c] \in {"closing", "aborting"}
                           /\ inflight'[c] # <<>>
                           /\ inflight'[c][Len(inflight'[c])].records = batch[c]]_vars

\* C17 witness: after a size-triggered flush, close() found the third
\* record buffered and its insert has executed: all rows are there.
C17_Witness ==
    /\ sink[1] = "closed"
    /\ batchSize = 2
    /\ flushLog[1] = <<[by |-> "write", n |-> 2], [by |-> "close", n |-> 1]>>
    /\ Len(msgs[1]) = 3

\* The flushes of run c that issued an insert before close(), and the
\* number of records the flush of close() delivered
PreCloseFlushes(c) ==
    Cardinality({i \in 1..Len(flushLog[c]) : flushLog[c][i].by \in {"write", "timer"}})
CloseRemainder(c) ==
    IF \E i \in 1..Len(flushLog[c]) : flushLog[c][i].by = "close"
    THEN (CHOOSE e \in {flushLog[c][i] : i \in 1..Len(flushLog[c])} : e.by = "close").n
    ELSE 0

\* C18: with batchSize B, once close() has been called on a sink that was
\* written N >= B messages, at least N \div B flushes were made before it
\* and the flush of close() delivers fewer than B records.
C18_FlushBound ==
    \A c \in RunIds :
        sink[c] \in {"closing", "closed"} /\ index[c] >= batchSize
            => /\ PreCloseFlushes(c) >= index[c] \div batchSize
               /\ CloseRemainder(c) >= 0
               /\ CloseRemainder(c) < batchSize

\* C18 witness: B = 2, N = 3, and a timer flush came between the writes.
C18_Witness ==
    /\ batchSize = 2
    /\ sink[1] = "closed"
    /\ index[1] = 3
    /\ \E i \in 1..Len(flushLog[1]) : flushLog[1][i].by = "timer"
    /\ \E i \in 1..Len(flushLog[1]) : flushLog[1][i].by = "close"

\* C19: a write that fills the buffer to batchSize flushes, and so does
\* the timer, which is pending exactly while records are buffered (armed
\* by the first of them); every flush takes between one and batchSize
\* records, empties the buffer and leaves no timer; the buffer always
\* holds fewer than batchSize records.
C19_FlushTriggers ==
    /\ [](\A c \in RunIds :
            /\ Len(batch[c]) < batchSize
            /\ timerArmed[c] <=> batch[c] # <<>>
            /\ flushTimer[c] <=> timerArmed[c]
            /\ \A i \in 1..Len(flushLog[c]) :
                   flushLog[c][i].n >= 1 /\ flushLog[c][i].n <= batchSize)
    /\ [][\A c \in RunIds :
            /\ flushLog'[c] # flushLog[c]
                   => batch'[c] = <<>> /\ ~timerArmed'[c] /\ ~flushTimer'[c]
            /\ index'[c] # index[c] /\ Len(batch[c]) + 1 >= batchSize
                   => /\ flushLog'[c] = Append(flushLog[c],
                                               [by |-> "write", n |-> batchSize])
                      /\ Len(batch[c]) + 1 = batchSize
            /\ index'[c] # index[c] /\ Len(batch[c]) + 1 < batchSize
                   => /\ flushLog'[c] = flushLog[c]
                      /\ Len(batch'[c]) = Len(batch[c]) + 1
                      /\ timerArmed'[c]
            /\ timerArmed[c] /\ ~timerArmed'[c] /\ index'[c] = index[c]
                   => flushLog'[c] # flushLog[c]]_vars

\* C19 witness: with batchSize 2, the timer flushed one record and a later
\* write flushed a full batch of two.
C19_Witness ==
    /\ batchSize = 2
    /\ Len(flushLog[1]) >= 2
    /\ flushLog[1][1] = [by |-> "timer", n |-> 1]
    /\ flushLog[1][2] = [by |-> "write", n |-> 2]

\* C20: when the loop ends, the status is error exactly if the source
\* errored (the loop raised) or the last result message read has a subtype
\* beginning with error, and completed otherwise, a turn without result
\* message included; after an exception resultJson and error carry its
\* message; the final update writes that status and resultJson.
C20_FinalStatusClassification ==
    /\ [][\A c \in RunIds :
            pc[c] = "read" /\ pc'[c] = "final"
                => /\ final'[c].status = OutcomeStatus(c)
                   /\ final'[c].status = "error"
                          <=> \/ src[c] = "errored"
                              \/ /\ LastResult(seen[c]) # NoMsg
                                 /\ LastResult(seen[c]).subtype # <<>>
                                 /\ LastResult(seen[c]).subtype[1] = "error"
                   /\ final'[c].status \in {"error", "completed"}
                   /\ src[c] = "errored"
                          => /\ final'[c].resultJson.kind = "error"
                             /\ final'[c].resultJson.error = srcError[c]
                   /\ src[c] = "closed" /\ LastResult(seen[c]) = NoMsg
                          => /\ final'[c].status = "completed"
                             /\ final'[c].resultJson = NoJson]_vars
    /\ [][\A c \in RunIds :
            pc[c] = "final" /\ pc'[c] = "finalDone"
                => /\ rows'[c].status = final[c].status
                   /\ rows'[c].resultJson = final[c].resultJson]_vars

\* C20 witness: a turn that closed with messages but no result message
\* resolved completed.
C20_Witness ==
    /\ pc[1] = "resolved"
    /\ src[1] = "closed"
    /\ Len(seen[1]) = 2
    /\ LastResult(seen[1]) = NoMsg
    /\ result[1].status = "completed"
    /\ rows[1].status = "completed"

\* C21 as claimed: the sessionId of a run, on its ActiveRun and on its Run
\* row, is empty until an init message has been processed, and once it is
\* non-empty it never changes.
C21_SessionIdSetOnce ==
    /\ [](\A c \in RunIds :
            (\A i \in 1..Len(seen[c]) : seen[c][i].type # "system")
                => /\ activeRun[c].sessionId = <<>>
                   /\ c \in DOMAIN rows => rows[c].sessionId = <<>>)
    /\ [][\A c \in RunIds :
            /\ activeRun[c].sessionId # <<>>
                   => activeRun'[c].sessionId = activeRun[c].sessionId
            /\ c \in DOMAIN rows /\ rows[c].sessionId # <<>>
                   => rows'[c].sessionId = rows[c].sessionId]_vars

\* C22: the loop reads the messages in the order the provider emitted them,
\* and the session id of an init message is captured and written to the Run
\* row before any later message is read, hence before the terminal status
\* is computed and before it is persisted.
C22_SessionPersistedBeforeLater ==
    /\ [](\A c \in RunIds :
            /\ Len(seen[c]) <= Len(emitted[c])
            /\ seen[c] = SubSeq(emitted[c], 1, Len(seen[c]))
            /\ pc[c] = "session" => LastSession(seen[c]) = captured[c]
            /\ pc[c] = "final" => rows[c].sessionId = LastSession(seen[c]))
    /\ [][\A c \in RunIds :
            (seen'[c] # seen[c] \/ final'[c] # final[c])
                => /\ pc[c] = "read"
                   /\ rows[c].sessionId = LastSession(seen[c])]_vars

C22_Witness ==
    /\ pc[1] = "finalDone"
    /\ Len(seen[1]) >= 2
    /\ seen[1][1] = InitMsg(S1)
    /\ rows[1].sessionId = S1
    /\ rows[1].status = "completed"

\* The dispatches made for run c with the named events.
Dispatched(c, events) ==
    {i \in 1..Len(hooks) : hooks[i].event.runId = c /\ hooks[i].event.event \in events}

\* The named call was admitted: its ActiveRun was registered.
Admitted(c) == activeRun[c].status # "none"

\* C23 as claimed: a run admitted with a webhookUrl has run.started
\* dispatched at admission, before the provider is invoked, and exactly one
\* of run.completed, run.failed, run.error once it has resolved; a run without
\* a webhookUrl has no dispatch.
C23_LifecycleNotifications ==
    \A c \in RunIds :
        IF webhookUrl[c] = Undefined
        THEN Dispatched(c, WebhookEventTypes) = {}
        ELSE /\ Admitted(c) => Cardinality(Dispatched(c, {"run.started"})) = 1
             /\ pc[c] = "resolved" =>
                    Cardinality(Dispatched(c, WebhookEventTypes \ {"run.started"})) = 1

\* C24: dispatchWebhook returns with the request still pending, whatever
\* requests are pending already; an event gets one HTTP request, which
\* settles once as delivered, non-2xx, timed out or failed and is not
\* repeated.
C24_DispatchFireAndForget ==
    /\ [](\A i \in 1..Len(hooks) : hooks[i].requests = 1)
    /\ [][/\ Len(hooks') >= Len(hooks)
          /\ Len(hooks') > Len(hooks) =>
                /\ Len(hooks') = Len(hooks) + 1
                /\ hooks'[Len(hooks')].fetch = "pending"
          /\ \A i \in 1..Len(hooks) :
                /\ hooks'[i].url = hooks[i].url
                /\ hooks'[i].event = hooks[i].event
                /\ hooks'[i].requests = hooks[i].requests
                /\ hooks[i].fetch # "pending" => hooks'[i].fetch = hooks[i].fetch]_vars

C24_Witness ==
    /\ Len(hooks) = 3
    /\ hooks[1].fetch = "timeout"
    /\ hooks[2].fetch = "failed"
    /\ hooks[3].fetch = "pending"

\* C25: under fair scheduling, an admitted run whose provider sequence has
\* ended or failed, after a cancel or without one, eventually has a terminal
\* persisted status, is out of the registry and has resolved, and stays so.
C25_SettledRunResolves ==
    \A c \in RunIds :
        (Admitted(c) /\ src[c] \in {"closed", "errored"})
            ~> [](/\ pc[c] = "resolved"
                  /\ c \notin activeRuns
                  /\ c \in DOMAIN rows
                  /\ rows[c].status \in TerminalStatuses)

C25_Witness ==
    /\ pc[1] = "resolved"
    /\ activeRun[1].aborted
    /\ srcError[1] = AbortError
    /\ cpc[1] = "resolved"
    /\ 1 \notin activeRuns
    /\ rows[1].status \in TerminalStatuses

\* C26 as claimed: when the run ends by a provider error or a cancellation,
\* an insert in flight still executes, abort() hands the buffered records to
\* a last insert, and once the recorder has finished the recorded messages
\* are the messages the processing loop read before the failure.
C26_RecordingNotCutShort ==
    /\ [][\A c \in RunIds :
            (src'[c] = "errored" /\ inflight[c] # <<>>)
                => \/ inflight'[c] = inflight[c]
                   \/ /\ inflight'[c] = Tail(inflight[c])
                      /\ msgs'[c] = msgs[c] \o Head(inflight[c]).records
                   \/ /\ Len(inflight'[c]) = Len(inflight[c]) + 1
                      /\ SubSeq(inflight'[c], 1, Len(inflight[c])) = inflight[c]]_vars
    /\ [](\A c \in RunIds :
            (src[c] = "errored" /\ sink[c] = "aborted" /\ inflight[c] = <<>>)
                => /\ batch[c] = <<>>
                   /\ GetRunMessages(c) = seen[c])

\* C27 as claimed: a Run row with status running has no durationMs, and a
\* Run row with status completed, error or cancelled has one.
C27_DurationIffTerminal ==
    \A c \in DOMAIN rows :
        /\ rows[c].status = "running" => rows[c].durationMs = Null
        /\ rows[c].status \in TerminalStatuses => rows[c].durationMs # Null

\* C28: every provider invocation is made with forkSession true, with the
\* cwd of the run and with resume set to the sessionId argument of the run
\* (undefined for a fresh run), whatever the caller's options carry under
\* those keys; the caller's other options are passed on.
C28_ForcedSdkOptions ==
    \A c \in RunIds :
        gen[c].at # "none"
            => /\ sdkOptions[c].forkSession = TRUE
               /\ sdkOptions[c].cwd = rows[c].cwd
               /\ sdkOptions[c].resume =
                      IF rows[c].mode = "fresh" THEN Undefined
                      ELSE rows[c].parentSessionId
               /\ \A k \in DOMAIN options[c] \ DOMAIN ExecuteOptions(0, 0, 0) :
                      sdkOptions[c][k] = options[c][k]

C28_Witness ==
    /\ gen[2].at # "none"
    /\ rows[2].mode = "fork"
    /\ rows[2].parentSessionId = S1
    /\ options[2] = [cwd |-> <<"/", "x">>, forkSession |-> FALSE, resume |-> <<"z">>]
    /\ rows[2].cwd # <<"/", "x">>

\* C29: a call that resolved with a non-empty sessionId s has left a Run row
\* of session s; the lookup of a resume or fork of s made after that finds a
\* row, so the call does not fail with SessionNotFoundError and goes on with
\* the cwd of a row of session s; the row it inserts has its mode, s as
\* parentSessionId and that cwd.
C29_ReturnedSessionResumable ==
    /\ [](\A c \in RunIds :
            pc[c] = "resolved" /\ result[c].sessionId # <<>>
                => c \in DOMAIN rows /\ rows[c].sessionId = result[c].sessionId)
    /\ [][\A d \in RunIds :
            (/\ pc[d] = "lookup" /\ pc'[d] # "lookup"
             /\ \E c \in RunIds : /\ pc[c] = "resolved"
                                  /\ result[c].sessionId # <<>>
                                  /\ result[c].sessionId = args[d].sessionId)
                => /\ pc'[d] = "insert"
                   /\ \E e \in DOMAIN rows :
                         /\ rows[e].sessionId = args[d].sessionId
                         /\ args'[d].cwd = rows[e].cwd]_vars
    /\ [][\A d \in RunIds :
            (d \notin DOMAIN rows /\ d \in DOMAIN rows' /\ args[d].mode # "fresh")
                => /\ rows'[d].mode = args[d].mode
                   /\ rows'[d].parentSessionId = args[d].sessionId
                   /\ rows'[d].cwd = args[d].cwd]_vars

C29_Witness ==
    /\ pc[1] = "resolved"
    /\ result[1].sessionId = S1
    /\ 2 \in DOMAIN rows
    /\ rows[2].mode = "fork"
    /\ rows[2].parentSessionId = S1
    /\ rows[2].cwd = rows[1].cwd

\* What a returned value is once it has settled
Settled(v) == IF v[1] = "promise" THEN Result(v[2]) ELSE v

\* C30 as claimed: after reset() isInitialized() is false, and the next
\* get (synchronous initializer) or getAsync runs the initializer again and
\* returns its new result, also when reset() was called while an
\* asynchronous initialization was pending.
C30_ResetReinitializes ==
    /\ [](afterReset => ~initialized)
    /\ [][(afterReset /\ got'.calls > got.calls
                      /\ (got'.by = "getAsync" \/ kind = "sync"))
             => /\ inits' = inits + 1
                /\ Settled(got'.value) = Result(inits')]_vars

\* The positions in the table of run c of the rows with index >= fromIndex
Eligible(c, fromIndex) == {i \in 1..Len(msgs[c]) : msgs[c][i].index >= fromIndex}

\* The eligible row with exactly k eligible rows of a smaller index
EligibleAt(c, fromIndex, k) ==
    CHOOSE i \in Eligible(c, fromIndex) :
        Cardinality({j \in Eligible(c, fromIndex) :
                        msgs[c][j].index < msgs[c][i].index}) = k

Min(a, b) == IF a <= b THEN a ELSE b
Max(a, b) == IF a >= b THEN a ELSE b

\* C31 as claimed: getMessages(runId, {fromIndex, offset, limit}) returns
\* rows of that run with index >= fromIndex, by ascending index, without the
\* first offset of them, and at most limit of them for every limit that is
\* given, 0 included.
C31_GetMessagesWindow ==
    \A c \in RunIds :
        \A limit \in 0..QueryMax, offset \in 0..QueryMax, fromIndex \in 0..QueryMax :
            LET r == GetMessages(c, limit, offset, fromIndex)
                n == Cardinality(Eligible(c, fromIndex))
            IN /\ Len(r) = Min(limit, Max(n - offset, 0))
               /\ \A k \in 1..Len(r) :
                     r[k] = Parse(msgs[c][EligibleAt(c, fromIndex, offset + k - 1)].messageJson)

\* C32 as claimed: in the step in which start/resume/fork resolves, the
\* status of the returned result is the status the Run row of the run has,
\* whatever cancel calls ran meanwhile.
C32_ResultStatusIsPersisted ==
    [][\A c \in RunIds :
          pc[c] # "resolved" /\ pc'[c] = "resolved"
              => /\ c \in DOMAIN rows'
                 /\ result'[c].status = rows'[c].status]_vars

\* C33 as claimed: a run that is in the registry has a Run row, and the
\* status of that row is running.
C33_RegisteredRunIsRunning ==
    \A c \in activeRuns :
        /\ c \in DOMAIN rows
        /\ rows[c].status = "running"

\* The records of run c that were handed to an insert, executed or pending,
\* batch after batch
RECURSIVE Concat(_)
Concat(batches) ==
    IF batches = <<>> THEN <<>> ELSE Head(batches) \o Concat(Tail(batches))

Inserted(c) ==
    msgs[c] \o Concat([j \in 1..Len(inflight[c]) |-> inflight[c][j].records])

\* C34: with inserts that succeed, the records handed to inserts followed
\* by the buffered ones are the records of the messages the sink was
\* written, each once and in order, whichever of write, the timer, close
\* and abort made the flushes; every flush made one insert batch, and once
\* the sink is closed or aborted nothing is left in the buffer.
C34_EveryRecordInOneBatch ==
    \A c \in RunIds :
        LET all == Inserted(c) \o batch[c] IN
        /\ Len(all) = index[c]
        /\ \A i \in 1..Len(all) : all[i].index = i - 1
        /\ Len(flushLog[c]) = Len(inflight[c])
               + Cardinality({i \in 1..Len(flushLog[c]) :
                     SumTo([j \in 1..Len(flushLog[c]) |-> flushLog[c][j].n], i)
                         <= Len(msgs[c])})
        /\ SumTo([j \in 1..Len(flushLog[c]) |-> flushLog[c][j].n], Len(flushLog[c]))
               = Len(Inserted(c))
        /\ sink[c] \in {"closed", "aborted"} => batch[c] = <<>>

C34_Witness ==
    /\ sink[1] = "closed"
    /\ batchSize = 2
    /\ flushLog[1] = <<[by |-> "write", n |-> 2], [by |-> "timer", n |-> 1]>>
    /\ Len(msgs[1]) = 3

C36_BufferIffTimer ==
    \A c \in RunIds :
        sink[c] = "open"
            => /\ batch[c] # <<>> <=> flushTimer[c]
               /\ flushTimer[c] <=> timerArmed[c]

C36_Witness ==
    /\ sink[1] = "open"
    /\ batchSize = 2
    /\ flushLog[1] = <<[by |-> "timer", n |-> 1]>>
    /\ Len(batch[1]) = 1
    /\ batch[1][1].index = 1
    /\ timerArmed[1]

\* C37: once the provider's output has ended, by completion without a
\* result message, by error or by abort included, the one-shot signal the
\* input generator waits on is eventually set.
C37_InputReleasedAfterOutputEnds ==
    \A c \in RunIds : (src[c] \in {"closed", "errored"}) ~> received[c]

\* A step taken by run c: its call, its provider, its processing loop, its
\* recorder sink, or a cancel of c
RunStep(c) ==
    \/ StartCall(c) \/ ResumeCall(c) \/ ForkCall(c) \/ AfterLookup(c)
    \/ BeginExecute(c) \/ ProviderPull(c) \/ ProcRead(c)
    \/ DbUpdateSession(c) \/ DbUpdateFinal(c) \/ Finish(c)
    \/ SinkWrite(c) \/ TimerFire(c) \/ SinkClose(c) \/ SinkAbort(c)
    \/ DbInsertMessages(c)
    \/ \E k \in 1..RunsMaxCancels : CancelCall(k, c)
    \/ \E k \in 1..RunsMaxCancels : ctarget[k] = c /\ DbUpdateCancelled(k)
    \/ \E k \in 1..RunsMaxCancels : ctarget[k] = c /\ CancelFinish(k)

\* Run d's Run row, RunMessage rows, index counter and registry entry are
\* as they were.
RunUntouched(d) ==
    /\ (d \in DOMAIN rows') = (d \in DOMAIN rows)
    /\ d \in DOMAIN rows => rows'[d] = rows[d]
    /\ msgs'[d] = msgs[d]
    /\ index'[d] = index[d]
    /\ (d \in activeRuns') = (d \in activeRuns)
    /\ activeRun'[d] = activeRun[d]

\* C38: a step of one run (its processing loop, recorder, completion path
\* or a cancel of it) leaves every other run's Run row, RunMessage rows,
\* message index counter and active-registry entry unchanged.
C38_RunsIndependent ==
    [][\A c \in RunIds : RunStep(c) => \A d \in RunIds \ {c} : RunUntouched(d)]_vars

\* C38 witness: run 1 was cancelled and is deregistered with its row
\* cancelled, while run 2, begun concurrently, is still registered and
\* running with its own message recorded under index 0.
C38_Witness ==
    /\ cpc[1] = "resolved"
    /\ ctarget[1] = 1
    /\ 1 \in DOMAIN rows /\ rows[1].status = "cancelled"
    /\ 1 \notin activeRuns
    /\ 2 \in activeRuns
    /\ 2 \in DOMAIN rows /\ rows[2].status = "running"
    /\ Len(msgs[2]) = 1
    /\ index[2] = 1 /\ index[1] = 0

\* C39: when two set calls issued one right after the other, with no
\* await, no other call and no resolution in between, have both resolved,
\* the state is the second updater applied to the first updater applied to
\* the value the State was initialized with, whether or not initialization
\* had finished when they were issued.
C39_NoLostUpdate ==
    [][\A u \in 1..(MaxSets - 1) :
          (/\ sets[u].at = "resolved"
           /\ sets[u + 1].at = "awaiting"
           /\ sets'[u + 1].at = "resolved"
           /\ sets[u + 1].issued = sets[u].issued)
              => state' = Updated(u + 1, Updated(u, Settled(sets[u].current)))]_vars

====
